---- MODULE Spec2Model ----
(***************************************************************************)
(* Model of the cold-agent decision loop (runAgentLoop in run/agentLoop.ts) *)
(* and of the pure helpers it calls.  Strings are sequences of one-letter   *)
(* strings so that toLowerCase, includes and the \b...\b patterns are       *)
(* computed, not assumed.                                                   *)
(***************************************************************************)
EXTENDS Integers, Sequences, FiniteSets, TLC

VARIABLES cfg, env, pc, stepIndex, elapsed, page, snapshot, action, result,
          steps, ladderState, visitedPages, finalStatus, reason,
          completionEvidence, lastCall, nObserved, nDecisions, nDispatched,
          input, output, orchestrator, tmux, listener, evidence, twin

vars == <<cfg, env, pc, stepIndex, elapsed, page, snapshot, action, result,
          steps, ladderState, visitedPages, finalStatus, reason,
          completionEvidence, lastCall, nObserved, nDecisions, nDispatched,
          input, output, orchestrator, tmux,
                   listener, evidence, twin>>

agentVars == <<cfg, env, pc, stepIndex, elapsed, page, snapshot, action, result,
               steps, ladderState, visitedPages, finalStatus, reason,
               completionEvidence, lastCall, nObserved, nDecisions, nDispatched, twin,
               listener, evidence>>

loopVars == <<agentVars, orchestrator, tmux>>

(***************************************************************************)
(* Bounds of the model.                                                     *)
(***************************************************************************)
MaxSteps == 2          \* largest config.maxSteps of the short runs
MaxStepsLong == 16     \* largest config.maxSteps of the long runs
MaxMinutes == 1        \* largest config.maxMinutes
MaxHintLists == 2      \* longest mustSeeText / mustEndOnUrlIncludes list

(***************************************************************************)
(* Program constants.                                                       *)
(***************************************************************************)
CeilingSteps == 14     \* stepsWithoutProgress >= 14 : discoverability block
Phase2Steps == 10      \* stepsWithoutProgress >= 10 : help phase
Phase1Steps == 6       \* stepsWithoutProgress >= 6  : search phase

(***************************************************************************)
(* Strings.                                                                 *)
(***************************************************************************)
UpperChars == <<"A","B","C","D","E","F","G","H","I","J","K","L","M",
                "N","O","P","Q","R","S","T","U","V","W","X","Y","Z">>
LowerChars == <<"a","b","c","d","e","f","g","h","i","j","k","l","m",
                "n","o","p","q","r","s","t","u","v","w","x","y","z">>
DigitChars == <<"0","1","2","3","4","5","6","7","8","9">>

InSeq(c, s) == \E i \in 1..Len(s) : s[i] = c

\* String.prototype.toLowerCase, letter by letter
toLowerChar(c) ==
    IF InSeq(c, UpperChars)
    THEN LowerChars[CHOOSE i \in 1..Len(UpperChars) : UpperChars[i] = c]
    ELSE c

toLowerCase(s) == [i \in 1..Len(s) |-> toLowerChar(s[i])]

\* String.prototype.includes
includes(s, sub) ==
    \E i \in 0..(Len(s) - Len(sub)) : SubSeq(s, i + 1, i + Len(sub)) = sub

\* \w and \s of the regular expressions
IsWordChar(c) ==
    InSeq(c, UpperChars) \/ InSeq(c, LowerChars) \/ InSeq(c, DigitChars) \/ c = "_"

IsSpaceChar(c) == c \in {" ", "\n", "\t"}

\* \b at the gap before position i (1 <= i <= Len(s)+1)
IsBoundary(s, i) ==
    LET before == i > 1 /\ IsWordChar(s[i - 1])
        after  == i <= Len(s) /\ IsWordChar(s[i])
    IN  before # after

\* the literal w occurs in s at position i, compared without case (flag i)
LiteralAt(s, i, w) ==
    /\ i + Len(w) - 1 <= Len(s)
    /\ toLowerCase(SubSeq(s, i, i + Len(w) - 1)) = w

\* /\bw1\b/i  or  /\bw1\s+w2\b/i : a pattern is a sequence of one or two words
RegexTest(pattern, s) ==
    \E i \in 1..Len(s) :
        /\ IsBoundary(s, i)
        /\ LiteralAt(s, i, pattern[1])
        /\ IF Len(pattern) = 1
           THEN IsBoundary(s, i + Len(pattern[1]))
           ELSE \E j \in (i + Len(pattern[1]) + 1)..Len(s) :
                   /\ \A k \in (i + Len(pattern[1]))..(j - 1) : IsSpaceChar(s[k])
                   /\ LiteralAt(s, j, pattern[2])
                   /\ IsBoundary(s, j + Len(pattern[2]))

DESTRUCTIVE_PATTERNS ==
    << << <<"d","e","l","e","t","e">> >>,
       << <<"r","e","m","o","v","e">> >>,
       << <<"c","a","n","c","e","l">>,
          <<"s","u","b","s","c","r","i","p","t","i","o","n">> >>,
       << <<"u","n","s","u","b","s","c","r","i","b","e">> >>,
       << <<"c","l","o","s","e">>, <<"a","c","c","o","u","n","t">> >>,
       << <<"d","e","a","c","t","i","v","a","t","e">> >>,
       << <<"t","e","r","m","i","n","a","t","e">> >>,
       << <<"d","e","s","t","r","o","y">> >>,
       << <<"e","r","a","s","e">> >>,
       << <<"p","e","r","m","a","n","e","n","t","l","y">> >> >>


(***************************************************************************)
(* URLs.  A URL string is Origin followed by path, query and fragment;     *)
(* pathname and search are what  new URL(u).pathname / .search  return.    *)
(***************************************************************************)
Origin == <<"h","t","t","p",":","/","/","x">>

FirstIndexOf(s, chars) ==
    IF \E i \in 1..Len(s) : s[i] \in chars
    THEN CHOOSE i \in 1..Len(s) :
            s[i] \in chars /\ \A j \in 1..(i - 1) : s[j] \notin chars
    ELSE Len(s) + 1

AfterOrigin(url) == SubSeq(url, Len(Origin) + 1, Len(url))

pathname(url) ==
    LET r == AfterOrigin(url)
        e == FirstIndexOf(r, {"?", "#"})
    IN  IF e = 1 THEN <<"/">> ELSE SubSeq(r, 1, e - 1)

search(url) ==
    LET r == AfterOrigin(url)
        q == FirstIndexOf(r, {"?", "#"})
        rest == SubSeq(r, q, Len(r))
        h == FirstIndexOf(rest, {"#"})
        s == SubSeq(rest, 1, h - 1)
    IN  IF Len(s) <= 1 \/ s[1] # "?" THEN <<>> ELSE s

(***************************************************************************)
(* The pages of the site under test, as buildSnapshot reports them.         *)
(***************************************************************************)
T_Home == <<"H","o","m","e">>
T_Pricing == <<"P","r","i","c","i","n","g">>
T_Help == <<"H","e","l","p">>
T_Search == <<"S","e","a","r","c","h">>
T_DeleteAccount == <<"D","e","l","e","t","e"," ","a","c","c","o","u","n","t">>
T_DeleteMyAccount == <<"D","e","l","e","t","e"," ","m","y"," ","a","c","c","o","u","n","t">>
T_RemoveItem == <<"R","e","m","o","v","e"," ","i","t","e","m">>
T_but_3 == <<"b","u","t","_","3">>
T_plans == <<"p","l","a","n","s">>
T_PRICING == <<"P","R","I","C","I","N","G">>
T_results == <<"r","e","s","u","l","t","s">>

G_browse == <<"b","r","o","w","s","e"," ","t","h","e"," ","p","r","o","d","u","c","t">>
G_delete == <<"d","e","l","e","t","e"," ","m","y"," ","a","c","c","o","u","n","t">>

Element(ref, role, name) == [ref |-> ref, role |-> role, name |-> name]

\* buildSnapshot: the search-box test of an interactive element
IsSearchBoxElement(el) ==
    \/ el.role = "searchbox"
    \/ el.role = "textbox" /\ includes(toLowerCase(el.name), toLowerCase(T_Search))

\* buildSnapshot: the help-link test of an interactive element
IsHelpLinkElement(el) ==
    el.role = "link" /\ RegexTest(<< toLowerCase(T_Help) >>, el.name)

\* the fields of a PageSnapshot that the loop reads
Snapshot(url, title, headings, elements, text) ==
    [url |-> url, title |-> title, headings |-> headings,
     interactiveElements |-> elements, text |-> text,
     hasSearchBox |-> \E i \in 1..Len(elements) : IsSearchBoxElement(elements[i]),
     hasHelpLink |-> \E i \in 1..Len(elements) : IsHelpLinkElement(elements[i])]

Site ==
    [A |-> Snapshot(Origin \o <<"/">>, T_Home, << T_Home >>,
                    << Element(<<"l","i","n","_","1">>, "link", T_Pricing),
                       Element(<<"l","i","n","_","2">>, "link", T_Help),
                       Element(T_but_3, "button", T_DeleteAccount),
                       Element(<<"s","e","a","_","4">>, "searchbox", T_Search) >>,
                    <<"P","a","g","e",":"," ","H","o","m","e">>),
     B |-> Snapshot(Origin \o <<"/","?","q","=","1">>, T_Home, << T_Home >>,
                    << Element(<<"t","e","x","_","1">>, "textbox", <<"S","e","a","r","c","h"," ","s","i","t","e">>) >>,
                    <<"S","e","a","r","c","h"," ","R","e","s","u","l","t","s">>),
     C |-> Snapshot(Origin \o <<"/","p","r","i","c","i","n","g">>, T_Pricing, << >>,
                    << Element(<<"l","i","n","_","1">>, "link", T_Help) >>,
                    <<"P","r","i","c","i","n","g"," ","P","l","a","n","s">>),
     D |-> Snapshot(Origin \o <<"/","h","e","l","p">>, T_Help, << T_Help >>,
                    << Element(<<"l","i","n","_","1">>, "link", T_Home) >>,
                    <<"H","e","l","p"," ","c","e","n","t","e","r">>)]

PageIds == DOMAIN Site

(***************************************************************************)
(* Actions the completion service may answer with (already normalized).     *)
(***************************************************************************)
ClickPricing == [type |-> "click", target |-> T_Pricing]
ClickRef == [type |-> "click", target |-> T_but_3]
ClickDelete == [type |-> "click", target |-> T_DeleteMyAccount]
ClickRemove == [type |-> "click", target |-> T_RemoveItem]
OpenHelp == [type |-> "openHelp"]
DoneAction == [type |-> "done", reason |-> "Found it", evidenceSteps |-> << 0 >>]

Responses == {ClickPricing, ClickRef, ClickDelete, ClickRemove, OpenHelp, DoneAction}
ResponsesLong == {OpenHelp, ClickDelete, DoneAction}

(***************************************************************************)
(* Success hints.  An absent list and an empty list behave alike           *)
(* (hints.mustSeeText?.length), so both are the empty sequence; NoHints is  *)
(* config.successHints left undefined.                                      *)
(***************************************************************************)
NoHints == [defined |-> FALSE]
Hints(see, urls) == [defined |-> TRUE, mustSeeText |-> see, mustEndOnUrlIncludes |-> urls]
HintsPricing == Hints(<< T_plans >>, << T_PRICING >>)
HintsResults == Hints(<< T_results >>, << >>)
HintsEmpty == Hints(<< >>, << >>)


(***************************************************************************)
(* Pure helpers of the loop.                                                *)
(***************************************************************************)
Max(a, b) == IF a >= b THEN a ELSE b

\* variant: the key keeps the query string of the URL
getPageKey_WithQuery(snap) ==
    AfterOrigin(snap.url) \o <<":", ":">> \o
        (IF Len(snap.headings) > 0 THEN snap.headings[1] ELSE << >>)

getPageKey(snap) ==
    pathname(snap.url) \o <<":", ":">> \o
        (IF Len(snap.headings) > 0 THEN snap.headings[1] ELSE << >>)

PageKeys == { getPageKey(Site[p]) : p \in PageIds }

\* first element satisfying a test, as Array.prototype.find; NoElement if none
NoElement == [ref |-> << >>, role |-> "none", name |-> << >>]

FindFirst(elements, hit) ==
    IF \E i \in 1..Len(elements) : hit[i]
    THEN elements[CHOOSE i \in 1..Len(elements) :
                     hit[i] /\ \A j \in 1..(i - 1) : ~hit[j]]
    ELSE NoElement

findElementByRef(snap, ref) ==
    FindFirst(snap.interactiveElements,
              [i \in 1..Len(snap.interactiveElements) |->
                  snap.interactiveElements[i].ref = ref])

findElementByText(snap, text) ==
    FindFirst(snap.interactiveElements,
              [i \in 1..Len(snap.interactiveElements) |->
                  includes(toLowerCase(snap.interactiveElements[i].name),
                           toLowerCase(text))])

findHelpLink(snap) ==
    FindFirst(snap.interactiveElements,
              [i \in 1..Len(snap.interactiveElements) |->
                  IsHelpLinkElement(snap.interactiveElements[i])])

\* variant: the second comparison looks at everything after the origin
assessProgress_WholeUrl(beforeUrl, afterUrl, previousState) ==
    IF pathname(beforeUrl) # pathname(afterUrl) THEN "major"
    ELSE IF AfterOrigin(beforeUrl) # AfterOrigin(afterUrl) THEN "some"
    ELSE "none"

assessProgress(beforeUrl, afterUrl, previousState) ==
    IF pathname(beforeUrl) # pathname(afterUrl) THEN "major"
    ELSE IF search(beforeUrl) # search(afterUrl) THEN "some"
    ELSE "none"

\* variant: entering a phase restarts the count of steps without progress
updateHelpLadder_RestartsCount(ls, snap) ==
    IF ls.stepsWithoutProgress >= Phase2Steps /\ ~ls.helpOpened /\ snap.hasHelpLink
    THEN [ls EXCEPT !.phase = 2, !.stepsWithoutProgress = 0]
    ELSE IF ls.stepsWithoutProgress >= Phase1Steps /\ snap.hasSearchBox
    THEN [ls EXCEPT !.phase = 1, !.stepsWithoutProgress = 0]
    ELSE ls

\* variant: the ladder falls back to phase 0 when neither branch applies
updateHelpLadder_Resets(ls, snap) ==
    IF ls.stepsWithoutProgress >= Phase2Steps /\ ~ls.helpOpened /\ snap.hasHelpLink
    THEN [ls EXCEPT !.phase = 2]
    ELSE IF ls.stepsWithoutProgress >= Phase1Steps /\ snap.hasSearchBox
    THEN [ls EXCEPT !.phase = 1]
    ELSE [ls EXCEPT !.phase = 0]

updateHelpLadder(ls, snap) ==
    IF ls.stepsWithoutProgress >= Phase2Steps /\ ~ls.helpOpened /\ snap.hasHelpLink
    THEN [ls EXCEPT !.phase = 2]
    ELSE IF ls.stepsWithoutProgress >= Phase1Steps /\ snap.hasSearchBox
    THEN [ls EXCEPT !.phase = 1]
    ELSE ls

\* variant: the goal is not consulted
isDestructiveAction_IgnoresGoal(a, goal) ==
    /\ a.type = "click"
    /\ \E i \in 1..Len(DESTRUCTIVE_PATTERNS) :
          RegexTest(DESTRUCTIVE_PATTERNS[i], toLowerCase(a.target))

isDestructiveAction(a, goal) ==
    /\ a.type = "click"
    /\ \E i \in 1..Len(DESTRUCTIVE_PATTERNS) :
          /\ RegexTest(DESTRUCTIVE_PATTERNS[i], toLowerCase(a.target))
          /\ ~RegexTest(DESTRUCTIVE_PATTERNS[i], toLowerCase(goal))

\* hints.mustSeeText.every(...) and hints.mustEndOnUrlIncludes.some(...),
\* scanned from the left as the array methods do
RECURSIVE EveryIncluded(_, _, _)
EveryIncluded(hay, needles, i) ==
    IF i > Len(needles) THEN TRUE
    ELSE IF ~includes(hay, toLowerCase(needles[i])) THEN FALSE
    ELSE EveryIncluded(hay, needles, i + 1)

RECURSIVE SomeIncluded(_, _, _)
SomeIncluded(hay, needles, i) ==
    IF i > Len(needles) THEN FALSE
    ELSE IF includes(hay, toLowerCase(needles[i])) THEN TRUE
    ELSE SomeIncluded(hay, needles, i + 1)

\* variant: every url entry is required, not just one
checkSuccessHints_EveryUrl(snap, hints) ==
    IF Len(hints.mustSeeText) > 0
       /\ ~EveryIncluded(toLowerCase(snap.text), hints.mustSeeText, 1)
    THEN FALSE
    ELSE IF Len(hints.mustEndOnUrlIncludes) > 0
            /\ ~EveryIncluded(toLowerCase(snap.url), hints.mustEndOnUrlIncludes, 1)
    THEN FALSE
    ELSE TRUE

\* variant: hints without entries are never satisfied
checkSuccessHints_EmptyFails(snap, hints) ==
    IF Len(hints.mustSeeText) = 0 /\ Len(hints.mustEndOnUrlIncludes) = 0
    THEN FALSE
    ELSE IF Len(hints.mustSeeText) > 0
            /\ ~EveryIncluded(toLowerCase(snap.text), hints.mustSeeText, 1)
    THEN FALSE
    ELSE IF Len(hints.mustEndOnUrlIncludes) > 0
            /\ ~SomeIncluded(toLowerCase(snap.url), hints.mustEndOnUrlIncludes, 1)
    THEN FALSE
    ELSE TRUE

\* hints.mustSeeText?.length and hints.mustEndOnUrlIncludes?.length are
\* falsy for an absent and for an empty list alike
checkSuccessHints(snap, hints) ==
    IF Len(hints.mustSeeText) > 0
       /\ ~EveryIncluded(toLowerCase(snap.text), hints.mustSeeText, 1)
    THEN FALSE
    ELSE IF Len(hints.mustEndOnUrlIncludes) > 0
            /\ ~SomeIncluded(toLowerCase(snap.url), hints.mustEndOnUrlIncludes, 1)
    THEN FALSE
    ELSE TRUE

\* variant: some-progress decrements without the floor at 0
UpdateStepsWithoutProgress_NoFloor(n, progress) ==
    IF progress = "major" THEN 0
    ELSE IF progress = "none" THEN n + 1
    ELSE n - 1

\* the ladder update after a recorded step
UpdateStepsWithoutProgress(n, progress) ==
    IF progress = "major" THEN 0
    ELSE IF progress = "none" THEN n + 1
    ELSE Max(0, n - 1)

\* variant: the recorded steps are not consulted
TimeBudgetStatus_AlwaysFail(recorded) == "fail"

\* status of a run stopped by the time budget
TimeBudgetStatus(recorded) == IF Len(recorded) > 0 THEN "partial" ELSE "fail"

\* variant: the success hints are not verified
DoneOutcome_Unverified(a, snap, hints) ==
    [finalStatus |-> "success", reason |-> a.reason]

\* status and reason of a run the agent declares done
DoneOutcome(a, snap, hints) ==
    IF hints.defined /\ ~checkSuccessHints(snap, hints)
    THEN [finalStatus |-> "partial",
          reason |-> "Agent declared done but success hints not fully satisfied"]
    ELSE [finalStatus |-> "success", reason |-> a.reason]

\* variant: the evidence names the number of recorded steps
HintSuccess_OffByOne(i) ==
    [finalStatus |-> "success", reason |-> "Success hints satisfied",
     completionEvidence |-> << i + 1 >>]

\* outcome of a run whose success hints hold after step i
HintSuccess(i) ==
    [finalStatus |-> "success", reason |-> "Success hints satisfied",
     completionEvidence |-> << i >>]

\* the call executeAction makes on the driver
NoCall == [op |-> "none"]

DriverCall(a, snap) ==
    IF a.type = "click"
    THEN LET byRef == findElementByRef(snap, a.target)
             element == IF byRef # NoElement THEN byRef
                        ELSE findElementByText(snap, a.target)
         IN  IF element # NoElement
             THEN [op |-> "clickRole", role |-> element.role, name |-> element.name]
             ELSE [op |-> "clickText", text |-> a.target]
    ELSE IF a.type = "openHelp"
    THEN LET helpLink == findHelpLink(snap)
         IN  IF helpLink # NoElement
             THEN [op |-> "clickRole", role |-> "link", name |-> helpLink.name]
             ELSE [op |-> "clickText", text |-> toLowerCase(T_Help)]
    ELSE [op |-> a.type]

\* catch (error) { result = { ok: false, notes: 'Action failed: ...',
\* error: String(error), progress: 'none' } } : a failed execution is counted
\* as a step without progress.
FailureResult_CountsAsProgress ==
    [ok |-> FALSE, notes |-> "Action failed", error |-> "Error", progress |-> "some"]

FailureResult ==
    [ok |-> FALSE, notes |-> "Action failed", error |-> "Error", progress |-> "none"]

\* evidence.getStepErrors(): the console and network errors seen during the step
NoErrors == [console |-> << >>, network |-> << >>]

\* createEvidenceCollector: the step-level console buffer (the network
\* buffer is filled, read and cleared at the same places) as the sequence of
\* captured events, numbered in the order of capture
NoEvidence == [stepConsoleErrors |-> << >>, captured |-> 0]

\* variant: steps are numbered from one
StepLog_OneBased(i, snapId, a, res) ==
    [i |-> i + 1, url |-> snapId, action |-> a, result |-> res,
     errors |-> [console |-> evidence.stepConsoleErrors, network |-> << >>]]

\* errors: evidence.getStepErrors() is a copy of the buffers as they are
StepLog(i, snapId, a, res) ==
    [i |-> i, url |-> snapId, action |-> a, result |-> res,
     errors |-> [console |-> evidence.stepConsoleErrors, network |-> << >>]]

TimeoutMs == cfg.maxMinutes * 60 * 1000
Tick == 60 * 1000      \* granularity of the clock: one minute, in ms


(***************************************************************************)
(* runAgentLoop.  pc is the position in the function:                       *)
(*   head     top of the for loop          observe  before buildSnapshot    *)
(*   decide   before decideNextAction      act      an action was decided   *)
(*   record   executeAction has settled    hints    before the hint check   *)
(*   after    behind the loop              returned the result was returned *)
(*   threw    an exception left the function                                *)
(***************************************************************************)
NoAction == [type |-> "none"]
NoResult == [ok |-> FALSE, notes |-> "", progress |-> "none"]
NoValue == [kind |-> "none"]

\* runOrchestrator.ts: the runs a session starts (each startRun makes a fresh
\* RunState; MaxRuns of them), and the module state before any startRun.
\* status is RunState.status ("new" before startRun made the object),
\* executing the runs inside executeRun, executions how often executeRun was
\* called for each run, started the order of those calls, report what
\* RunState.report holds ("none" while it is undefined, "evaluated" for the
\* report of evaluateRun, "error" for the one the catch callback builds),
\* file whether runs/<runId>/report.json exists, released how often the
\* finally callback of a run has decremented runningCount, threw the runs
\* whose executeRun has rejected.
MaxRuns == 4
RunIds == 1..MaxRuns
DefaultConcurrentRuns == 2

\* Math.max(1, Number(process.env.MAX_CONCURRENT_RUNS || 2)); the setting is
\* absent, empty, or the decimal text of a whole number
EnvSettings == {"unset", "", "0", "1", "2", "3"}
Number(text) == CASE text = "0" -> 0 [] text = "1" -> 1 [] text = "2" -> 2
                  [] text = "3" -> 3
MAX_CONCURRENT_RUNS(setting) ==
    LET n == IF setting \in {"unset", ""} THEN DefaultConcurrentRuns
             ELSE Number(setting)
    IN  IF n > 1 THEN n ELSE 1

ModuleState(setting) ==
    [limit |-> MAX_CONCURRENT_RUNS(setting),
     status |-> [r \in RunIds |-> "new"],
     pendingQueue |-> << >>,
     runningCount |-> 0,
     executing |-> {},
     executions |-> [r \in RunIds |-> 0],
     started |-> << >>,
     report |-> [r \in RunIds |-> "none"],
     file |-> [r \in RunIds |-> FALSE],
     released |-> [r \in RunIds |-> 0],
     threw |-> {}]

NoOrchestrator == ModuleState("unset")

\* claudeTmux.ts before any call: sessionLock = Promise.resolve(), lockResolve
\* = null.  Promises are numbered, 0 is the initial one; lockResolve names
\* the promise its resolver settles (NoPromise for null); each call is not
\* yet made ("idle"), suspended in acquireLock at `await sessionLock`
\* ("waiting", on the promise awaiting[c]), past acquireLock ("holding"), or
\* past releaseLock ("released").
MaxCalls == 3
CallIds == 1..MaxCalls
NoPromise == 0 - 1

NoTmux ==
    [sessionLock |-> 0,
     lockResolve |-> NoPromise,
     resolved |-> {0},
     created |-> 0,
     call |-> [c \in CallIds |-> "idle"],
     awaiting |-> [c \in CallIds |-> NoPromise]]

\* A second run of the loop on the same site, with the same answers of the
\* completion service and the same driver results, whose observations differ
\* only in hasSearchBox and hasHelpLink: both flags absent everywhere
\* ("none"), present everywhere ("all"), or as on the site ("same").  The
\* twin keeps the part of the loop's state that could come to differ: its
\* ladder state and whether it ran into the 14-step ceiling.
TwinSnapshot(snap, flags) ==
    IF flags = "same" THEN snap
    ELSE [snap EXCEPT !.hasSearchBox = (flags = "all"),
                      !.hasHelpLink = (flags = "all")]

Twin(flags) ==
    [flags |-> flags,
     ladderState |-> [phase |-> 0, stepsWithoutProgress |-> 0,
                      searchTermsUsed |-> << >>, helpOpened |-> FALSE],
     ceiling |-> FALSE]

NoTwin == Twin("same")

\* previousState = { url, title, pageKey } of the last executed step, or null
PreviousState ==
    IF steps = << >> THEN NoValue
    ELSE [kind |-> "state", url |-> Site[steps[Len(steps)].url].url]

InitLoop(configs, world) ==
    /\ cfg \in configs
    /\ env = world
    /\ pc = "head"
    /\ stepIndex = 0
    /\ elapsed = 0
    /\ page \in world.pages
    /\ snapshot = "A"
    /\ action = NoAction
    /\ result = NoResult
    /\ steps = << >>
    /\ ladderState = [phase |-> 0, stepsWithoutProgress |-> 0,
                      searchTermsUsed |-> << >>, helpOpened |-> FALSE]
    /\ visitedPages = [k \in PageKeys |-> 0]
    /\ finalStatus = "fail"
    /\ reason = "Unknown"
    /\ completionEvidence = << >>
    /\ lastCall = NoCall
    /\ nObserved = 0
    /\ nDecisions = 0
    /\ nDispatched = 0
    /\ orchestrator = NoOrchestrator
    /\ listener = << >>
    /\ evidence = NoEvidence
    /\ tmux = NoTmux
    /\ twin \in {Twin(f) : f \in world.twinFlags}
    /\ input = NoValue
    /\ output = NoValue

Config(goal, maxSteps, maxMinutes, hints) ==
    [goal |-> goal, maxSteps |-> maxSteps, maxMinutes |-> maxMinutes,
     successHints |-> hints]

Configs ==
    { Config(g, n, m, h) : g \in {G_browse, G_delete}, n \in 1..MaxSteps,
                           m \in 1..MaxMinutes,
                           h \in {NoHints, HintsPricing, HintsEmpty} }

ConfigsLong ==
    { Config(G_browse, n, m, h) : n \in CeilingSteps..MaxStepsLong,
                                  m \in {MaxMinutes},
                                  h \in {NoHints, HintsResults} }

\* the site: its pages, where an action can lead from each page, whether a
\* driver call can fail, and what the completion service can answer
World == [pages |-> {"A", "B", "C"},
          nav |-> {"A", "B", "C"} \X {"A", "B", "C"},
          responses |-> Responses, driverFails |-> TRUE,
          twinFlags |-> {"same"}]
WorldLong == [pages |-> {"A", "B"},
              nav |-> {<<"A", "A">>, <<"A", "B">>, <<"B", "B">>},
              responses |-> ResponsesLong, driverFails |-> FALSE,
              twinFlags |-> {"none", "all"}]

Init == InitLoop(Configs, World)
InitLong == InitLoop(ConfigsLong, WorldLong)

\* for (...; stepIndex < config.maxSteps; ...) and the time budget check.
\* elapsed is Date.now() - startTime as read here: since the previous read any
\* amount of time may have passed (the model advances it in steps of Tick).
CheckBudget ==
    /\ pc = "head"
    /\ IF stepIndex < cfg.maxSteps
       THEN /\ \E d \in {0, Tick} :
                  /\ elapsed + d <= MaxMinutes * Tick
                  /\ elapsed' = elapsed + d
            /\ IF elapsed' >= TimeoutMs
               THEN /\ reason' = "Time budget exhausted"
                    /\ finalStatus' = TimeBudgetStatus(steps)
                    /\ pc' = "after"
               ELSE /\ pc' = "observe"
                    /\ UNCHANGED <<reason, finalStatus>>
       ELSE /\ pc' = "after"
            /\ UNCHANGED <<elapsed, reason, finalStatus>>
    /\ UNCHANGED <<cfg, env, stepIndex, page, snapshot, action, result,
                   steps, ladderState, visitedPages, completionEvidence,
                   lastCall, nObserved, nDecisions, nDispatched, input, output, orchestrator, tmux,
                   listener, evidence, twin>>

\* buildSnapshot, the visit count and updateHelpLadder
Observe ==
    /\ pc = "observe"
    /\ nObserved' = nObserved + 1
    /\ \/ /\ snapshot' = page
          /\ visitedPages' = [visitedPages EXCEPT ![getPageKey(Site[page])] = @ + 1]
          /\ ladderState' = updateHelpLadder(ladderState, Site[page])
          /\ twin' = [twin EXCEPT !.ladderState =
                         updateHelpLadder(@, TwinSnapshot(Site[page], twin.flags))]
          /\ pc' = "decide"
       \/ /\ pc' = "threw"
          /\ UNCHANGED <<snapshot, visitedPages, ladderState, twin>>
    /\ UNCHANGED <<cfg, env, stepIndex, elapsed, page, action, result, steps,
                   finalStatus, reason, completionEvidence, lastCall,
                   nDecisions, nDispatched, input, output, orchestrator, tmux,
                   listener, evidence>>

\* A decision failure that is retried instead of ending the run.
Decide_RetriesOnError ==
    /\ pc = "decide"
    /\ nDecisions' = nDecisions + 1
    /\ \/ \E a \in env.responses :
             /\ action' = a
             /\ pc' = "act"
             /\ UNCHANGED reason
       \/ /\ reason' = "Decision error"
          /\ pc' = "decide"
          /\ nDecisions < MaxSteps + 1
          /\ UNCHANGED action
    /\ UNCHANGED <<cfg, env, stepIndex, elapsed, page, snapshot, result, steps,
                   ladderState, visitedPages, finalStatus, completionEvidence,
                   lastCall, nObserved, nDispatched, input, output, orchestrator, tmux,
                   listener, evidence, twin>>

\* decideNextAction: the completion service answers, fails or times out
Decide ==
    /\ pc = "decide"
    /\ nDecisions' = nDecisions + 1
    /\ \/ \E a \in env.responses :
             /\ action' = a
             /\ pc' = "act"
             /\ UNCHANGED reason
       \/ /\ reason' = "Decision error"
          /\ pc' = "after"
          /\ UNCHANGED action
    /\ UNCHANGED <<cfg, env, stepIndex, elapsed, page, snapshot, result, steps,
                   ladderState, visitedPages, finalStatus, completionEvidence,
                   lastCall, nObserved, nDispatched, input, output, orchestrator, tmux,
                   listener, evidence, twin>>

\* if (action.type === 'done') { ... break; }
HandleDone ==
    /\ pc = "act"
    /\ action.type = "done"
    /\ LET outcome == DoneOutcome(action, Site[snapshot], cfg.successHints)
       IN  /\ finalStatus' = outcome.finalStatus
           /\ reason' = outcome.reason
    /\ completionEvidence' = action.evidenceSteps
    /\ LET stepLog == StepLog(stepIndex, snapshot, action,
                              [ok |-> TRUE, notes |-> "Agent declared task complete",
                               progress |-> "major"])
       IN  \/ /\ steps' = Append(steps, stepLog)
              /\ listener' = Append(listener, stepLog)
              /\ pc' = "after"
           \/ /\ steps' = Append(steps, stepLog)   \* appendStepLog rejects
              /\ pc' = "threw"
              /\ UNCHANGED listener
           \/ /\ pc' = "threw"        \* evidence.takeScreenshot rejects
              /\ UNCHANGED <<steps, listener>>
    /\ UNCHANGED <<cfg, env, stepIndex, elapsed, page, snapshot, action, result,
                   ladderState, visitedPages, lastCall, nObserved, nDecisions,
                   nDispatched, input, output, orchestrator, tmux, evidence,
                   twin>>

\* if (isDestructiveAction(action, config.goal)) { ... break; }
BlockDestructive ==
    /\ pc = "act"
    /\ action.type # "done"
    /\ isDestructiveAction(action, cfg.goal)
    /\ reason' = "Blocked destructive action"
    /\ finalStatus' = "fail"
    /\ pc' = "after"
    /\ UNCHANGED <<cfg, env, stepIndex, elapsed, page, snapshot, action, result,
                   steps, ladderState, visitedPages, completionEvidence,
                   lastCall, nObserved, nDecisions, nDispatched, input, output, orchestrator, tmux,
                   listener, evidence, twin>>

\* try { result = await executeAction(...) } catch { result = {ok: false ...} }
Execute ==
    /\ pc = "act"
    /\ action.type # "done"
    /\ ~isDestructiveAction(action, cfg.goal)
    /\ evidence' = [evidence EXCEPT !.stepConsoleErrors = << >>]
    /\ lastCall' = DriverCall(action, Site[snapshot])
    /\ nDispatched' = nDispatched + 1
    /\ \/ \E p \in env.pages :
             /\ <<page, p>> \in env.nav
             /\ page' = p
             /\ result' = [ok |-> TRUE, notes |-> "Executed",
                           progress |-> assessProgress(Site[page].url, Site[p].url,
                                                       PreviousState)]
       \/ /\ env.driverFails
          /\ page' = page
          /\ result' = FailureResult
    /\ pc' = "record"
    /\ UNCHANGED <<cfg, env, stepIndex, elapsed, snapshot, action, steps,
                   ladderState, visitedPages, finalStatus, reason,
                   completionEvidence, nObserved, nDecisions, input, output,
                   orchestrator, tmux, listener, twin>>

\* screenshot, steps.push, the ladder update and the 14-step ceiling
Record ==
    /\ pc = "record"
    /\ \/ /\ steps' = Append(steps, StepLog(stepIndex, snapshot, action, result))
          /\ listener' = Append(listener, StepLog(stepIndex, snapshot, action, result))
          /\ LET n == UpdateStepsWithoutProgress(ladderState.stepsWithoutProgress,
                                                 result.progress)
                 m == UpdateStepsWithoutProgress(
                          twin.ladderState.stepsWithoutProgress, result.progress)
             IN  /\ ladderState' = [ladderState EXCEPT !.stepsWithoutProgress = n]
                 /\ twin' = [twin EXCEPT !.ladderState.stepsWithoutProgress = m,
                                         !.ceiling = (m >= CeilingSteps)]
                 /\ IF n >= CeilingSteps
                    THEN /\ reason' = "Discoverability block: no progress for 14 steps"
                         /\ finalStatus' = "fail"
                         /\ pc' = "after"
                    ELSE /\ pc' = "hints"
                         /\ UNCHANGED <<reason, finalStatus>>
       \/ /\ steps' = Append(steps, StepLog(stepIndex, snapshot, action, result))
          /\ pc' = "threw"            \* appendStepLog rejects
          /\ UNCHANGED <<listener, ladderState, reason, finalStatus, twin>>
       \/ /\ pc' = "threw"            \* evidence.takeScreenshot rejects
          /\ UNCHANGED <<steps, listener, ladderState, reason, finalStatus, twin>>
    /\ UNCHANGED <<cfg, env, stepIndex, elapsed, page, snapshot, action, result,
                   visitedPages, completionEvidence, lastCall, nObserved,
                   nDecisions, nDispatched, input, output, orchestrator, tmux,
                   evidence>>

\* if (config.successHints) { re-observe; check; break } and stepIndex++
CheckHints ==
    /\ pc = "hints"
    /\ IF cfg.successHints.defined
       THEN /\ nObserved' = nObserved + 1
            /\ \/ /\ IF checkSuccessHints(Site[page], cfg.successHints)
                     THEN /\ finalStatus' = HintSuccess(stepIndex).finalStatus
                          /\ reason' = HintSuccess(stepIndex).reason
                          /\ completionEvidence' = HintSuccess(stepIndex).completionEvidence
                          /\ pc' = "after"
                          /\ UNCHANGED stepIndex
                     ELSE /\ stepIndex' = stepIndex + 1
                          /\ pc' = "head"
                          /\ UNCHANGED <<finalStatus, reason, completionEvidence>>
               \/ /\ pc' = "threw"    \* buildSnapshot rejects
                  /\ UNCHANGED <<stepIndex, finalStatus, reason, completionEvidence>>
       ELSE /\ stepIndex' = stepIndex + 1
            /\ pc' = "head"
            /\ UNCHANGED <<nObserved, finalStatus, reason, completionEvidence>>
    /\ UNCHANGED <<cfg, env, elapsed, page, snapshot, action, result, steps,
                   ladderState, visitedPages, lastCall, nDecisions, nDispatched,
                   input, output, orchestrator, tmux,
                   listener, evidence, twin>>

\* variant: the result is returned without the rule behind the loop
Return_SkipsBudgetRule ==
    /\ pc = "after"
    /\ pc' = "returned"
    /\ UNCHANGED <<cfg, env, stepIndex, elapsed, page, snapshot, action, result,
                   steps, ladderState, visitedPages, finalStatus, reason,
                   completionEvidence, lastCall, nObserved, nDecisions,
                   nDispatched, input, output, orchestrator, tmux,
                   listener, evidence, twin>>

\* if (steps.length >= config.maxSteps && finalStatus === 'fail') ...; return
Return ==
    /\ pc = "after"
    /\ IF Len(steps) >= cfg.maxSteps /\ finalStatus = "fail"
       THEN /\ reason' = "Step budget exhausted"
            /\ finalStatus' = "partial"
       ELSE UNCHANGED <<reason, finalStatus>>
    /\ pc' = "returned"
    /\ UNCHANGED <<cfg, env, stepIndex, elapsed, page, snapshot, action, result,
                   steps, ladderState, visitedPages, completionEvidence,
                   lastCall, nObserved, nDecisions, nDispatched, input, output, orchestrator, tmux,
                   listener, evidence, twin>>

Next ==
    \/ CheckBudget
    \/ Observe
    \/ Decide
    \/ HandleDone
    \/ BlockDestructive
    \/ Execute
    \/ Record
    \/ CheckHints
    \/ Return

Spec == Init /\ [][Next]_vars
SpecLong == InitLong /\ [][Next]_vars


(***************************************************************************)
(* checkSuccessHints applied to observations and hints drawn from bounded   *)
(* sets (no run of the loop: pc stays "idle").                              *)
(***************************************************************************)
HintNeedles == {T_plans, T_PRICING, T_Help, T_results}

SeqsUpTo(S, n) == UNION { [1..k -> S] : k \in 0..n }

HintInputs ==
    [snapshot : {Site[p] : p \in PageIds},
     hints : { Hints(see, urls) : see \in SeqsUpTo(HintNeedles, MaxHintLists),
                                  urls \in SeqsUpTo(HintNeedles, MaxHintLists) }]

InitHints ==
    /\ cfg = Config(G_browse, 1, 1, NoHints)
    /\ env = World
    /\ pc = "idle"
    /\ stepIndex = 0
    /\ elapsed = 0
    /\ page = "A"
    /\ snapshot = "A"
    /\ action = NoAction
    /\ result = NoResult
    /\ steps = << >>
    /\ ladderState = [phase |-> 0, stepsWithoutProgress |-> 0,
                      searchTermsUsed |-> << >>, helpOpened |-> FALSE]
    /\ visitedPages = [k \in PageKeys |-> 0]
    /\ finalStatus = "fail"
    /\ reason = "Unknown"
    /\ completionEvidence = << >>
    /\ lastCall = NoCall
    /\ nObserved = 0
    /\ nDecisions = 0
    /\ nDispatched = 0
    /\ orchestrator = NoOrchestrator
    /\ listener = << >>
    /\ evidence = NoEvidence
    /\ tmux = NoTmux
    /\ twin = NoTwin
    /\ input \in HintInputs
    /\ output = NoValue

ApplyCheckSuccessHints ==
    /\ pc = "idle"
    /\ output = NoValue
    /\ output' = [kind |-> "checkSuccessHints",
                  value |-> checkSuccessHints(input.snapshot, input.hints)]
    /\ UNCHANGED <<loopVars, input>>

NextHints == ApplyCheckSuccessHints

SpecHints == InitHints /\ [][NextHints]_vars

(***************************************************************************)
(* Vocabulary of the properties.                                            *)
(***************************************************************************)
\* some destructive pattern matches the text and does not match the goal
DestructiveFor(text, goal) ==
    \E i \in 1..Len(DESTRUCTIVE_PATTERNS) :
        /\ RegexTest(DESTRUCTIVE_PATTERNS[i], text)
        /\ ~RegexTest(DESTRUCTIVE_PATTERNS[i], goal)

\* needle occurs in hay, letter case ignored
OccursIn(needle, hay) ==
    \E i \in 1..(Len(hay) + 1) :
        /\ i + Len(needle) - 1 <= Len(hay)
        /\ \A k \in 1..Len(needle) :
              toLowerChar(hay[i + k - 1]) = toLowerChar(needle[k])

\* every mustSeeText entry occurs in the text and, if there are url entries,
\* one of them occurs in the URL
HintsHoldOn(snap, hints) ==
    /\ \A i \in 1..Len(hints.mustSeeText) : OccursIn(hints.mustSeeText[i], snap.text)
    /\ \/ Len(hints.mustEndOnUrlIncludes) = 0
       \/ \E i \in 1..Len(hints.mustEndOnUrlIncludes) :
             OccursIn(hints.mustEndOnUrlIncludes[i], snap.url)

LastStep == steps[Len(steps)]


(***************************************************************************)
(* Properties.                                                              *)
(***************************************************************************)

\* C1: a decided click whose target matches a destructive pattern that the
\* goal does not match ends the run at once: status fail, the blocked-action
\* reason, nothing dispatched to the driver and no step recorded; any other
\* click is dispatched.  "Delete my account" is blocked for the goal "browse
\* the product" and dispatched for the goal "delete my account".
C1_DestructiveClickBlocked ==
    /\ [][(pc = "act" /\ action.type = "click") =>
            IF DestructiveFor(action.target, cfg.goal)
            THEN /\ pc' = "after"
                 /\ finalStatus' = "fail"
                 /\ reason' = "Blocked destructive action"
                 /\ steps' = steps
                 /\ nDispatched' = nDispatched
                 /\ lastCall' = lastCall
            ELSE /\ pc' = "record"
                 /\ nDispatched' = nDispatched + 1]_vars
    /\ [](reason = "Blocked destructive action" =>
            /\ pc \in {"after", "returned"}
            /\ finalStatus = "fail"
            /\ action.type = "click"
            /\ DestructiveFor(action.target, cfg.goal))
    /\ [](pc = "act" /\ action = ClickDelete =>
            (DestructiveFor(action.target, cfg.goal) <=> cfg.goal = G_browse))

C1_Witness ==
    /\ pc = "returned"
    /\ reason = "Blocked destructive action"
    /\ finalStatus = "fail"
    /\ action = ClickDelete
    /\ cfg.goal = G_browse
    /\ Len(steps) = 1

\* C2: the driver is never asked to click an element whose accessible name
\* contains a destructive keyword that the goal does not contain, whether the
\* click named the element by text or by reference id.
C2_NoDestructiveElementClicked ==
    lastCall.op = "clickRole" => ~DestructiveFor(lastCall.name, cfg.goal)

\* C3: a run whose stepsWithoutProgress reached the ceiling returns status
\* fail with the discoverability-block reason, also when that step was the
\* last one maxSteps allows; "step budget exhausted" is returned only when no
\* fail condition had set the status.
C3_CeilingReturnsFail ==
    (pc = "returned" /\ ladderState.stepsWithoutProgress >= CeilingSteps) =>
        /\ finalStatus = "fail"
        /\ reason = "Discoverability block: no progress for 14 steps"

\* C4: whatever the completion service and the driver do, the loop makes at
\* most maxSteps iterations, requests at most maxSteps decisions, records at
\* most maxSteps steps and ends by returning an outcome (never by an
\* exception) whose status is success, fail or partial.
C4_BoundedAndReturns ==
    /\ stepIndex <= cfg.maxSteps
    /\ nDecisions <= cfg.maxSteps
    /\ Len(steps) <= cfg.maxSteps
    /\ finalStatus \in {"success", "fail", "partial"}
    /\ pc # "threw"

\* C5: recording a step sets stepsWithoutProgress to 0 on major progress, to
\* the previous value plus one on none, and to the previous value minus one
\* but never below 0 on some; it is never negative, and some-progress steps
\* from 0 leave it at 0.
C5_StepsWithoutProgressUpdate ==
    /\ [][(pc = "record" /\ pc' # "threw") =>
            ladderState'.stepsWithoutProgress =
                CASE result.progress = "major" -> 0
                  [] result.progress = "none" -> ladderState.stepsWithoutProgress + 1
                  [] result.progress = "some" ->
                        IF ladderState.stepsWithoutProgress = 0 THEN 0
                        ELSE ladderState.stepsWithoutProgress - 1]_vars
    /\ [][pc # "record" =>
            ladderState'.stepsWithoutProgress = ladderState.stepsWithoutProgress]_vars
    /\ [](ladderState.stepsWithoutProgress >= 0)

C5_Witness ==
    /\ pc = "hints"
    /\ Len(steps) = 2
    /\ steps[1].result.progress = "some"
    /\ steps[2].result.progress = "some"
    /\ ladderState.stepsWithoutProgress = 0

C7_DoneOutcome ==
    /\ [][(pc = "act" /\ action.type = "done" /\ pc' # "threw") =>
            /\ pc' = "after"
            /\ steps' = Append(steps, steps'[Len(steps')])
            /\ steps'[Len(steps')].i = stepIndex
            /\ steps'[Len(steps')].action = action
            /\ nDispatched' = nDispatched
            /\ lastCall' = lastCall
            /\ page' = page]_vars
    /\ []((pc \in {"after", "returned"} /\ action.type = "done") =>
            /\ Len(steps) > 0
            /\ LastStep.action = action
            /\ \A k \in 1..(Len(steps) - 1) : steps[k].action.type # "done"
            /\ IF ~cfg.successHints.defined
                  \/ HintsHoldOn(Site[LastStep.url], cfg.successHints)
               THEN finalStatus = "success" /\ reason = action.reason
               ELSE /\ finalStatus = "partial"
                    /\ reason = "Agent declared done but success hints not fully satisfied")

C7_Witness ==
    /\ pc = "returned"
    /\ action.type = "done"
    /\ cfg.successHints = HintsPricing
    /\ Len(steps) = cfg.maxSteps
    /\ Len(steps) = 2
    /\ steps[1].result.progress = "major"
    /\ ~HintsHoldOn(Site[LastStep.url], cfg.successHints)
    /\ finalStatus = "partial"

\* C8: every recorded step that does not reach the ceiling is followed by the
\* hint check; with hints configured the page is observed again and, if the
\* hints hold on it, the run ends at once with status success, reason "Success
\* hints satisfied" and the current step index as the only evidence, whether
\* or not the step's action succeeded and without any done action.
C8_HintSuccessAfterStep ==
    /\ [][pc = "record" =>
            \/ pc' \in {"hints", "threw"}
            \/ pc' = "after" /\ ladderState'.stepsWithoutProgress >= CeilingSteps]_vars
    /\ [][(pc = "hints" /\ cfg.successHints.defined /\ pc' # "threw") =>
            /\ nObserved' = nObserved + 1
            /\ IF HintsHoldOn(Site[page], cfg.successHints)
               THEN /\ pc' = "after"
                    /\ finalStatus' = "success"
                    /\ reason' = "Success hints satisfied"
                    /\ completionEvidence' = << stepIndex >>
               ELSE /\ pc' = "head"
                    /\ UNCHANGED <<finalStatus, reason, completionEvidence>>]_vars
    /\ [](reason = "Success hints satisfied" =>
            /\ pc \in {"after", "returned"}
            /\ finalStatus = "success"
            /\ Len(steps) > 0
            /\ completionEvidence = << LastStep.i >>
            /\ LastStep.i = Len(steps) - 1
            /\ HintsHoldOn(Site[page], cfg.successHints))

C8_Witness ==
    /\ pc = "returned"
    /\ reason = "Success hints satisfied"
    /\ cfg.successHints = HintsPricing
    /\ Len(steps) = 1
    /\ ~LastStep.result.ok
    /\ LastStep.action.type # "done"
    /\ completionEvidence = << 0 >>

\* C9: checkSuccessHints holds exactly when every mustSeeText entry occurs in
\* the observation's text and, if mustEndOnUrlIncludes is not empty, at least
\* one of its entries occurs in the observation's URL, letter case ignored.
C9_CheckSuccessHints ==
    output # NoValue =>
        (output.value <=> HintsHoldOn(input.snapshot, input.hints))

C9_Witness ==
    /\ output # NoValue
    /\ output.value
    /\ Len(input.hints.mustSeeText) = 2
    /\ Len(input.hints.mustEndOnUrlIncludes) = 2
    /\ ~OccursIn(input.hints.mustEndOnUrlIncludes[1], input.snapshot.url)
    /\ input.hints.mustSeeText[1] # input.hints.mustSeeText[2]

\* C10: the time budget is checked first in every iteration; when it is
\* exhausted the loop stops without observing, deciding or dispatching, with
\* the time-budget reason and status partial if a step was recorded, fail if
\* none; nowhere else does the budget stop the run, so a dispatched step is
\* recorded before the budget is looked at again.
C10_TimeBudget ==
    /\ [][(pc = "head" /\ stepIndex < cfg.maxSteps /\ elapsed' >= TimeoutMs) =>
            /\ pc' = "after"
            /\ reason' = "Time budget exhausted"
            /\ finalStatus' = (IF Len(steps) > 0 THEN "partial" ELSE "fail")
            /\ nObserved' = nObserved
            /\ nDecisions' = nDecisions
            /\ nDispatched' = nDispatched
            /\ steps' = steps]_vars
    /\ [][(reason' = "Time budget exhausted" /\ reason # "Time budget exhausted")
            => pc = "head"]_vars
    /\ [][pc = "record" => (pc' = "threw" \/ Len(steps') = Len(steps) + 1)]_vars
    /\ []((pc = "returned" /\ reason = "Time budget exhausted") =>
            finalStatus = (IF Len(steps) > 0 THEN "partial" ELSE "fail"))
    /\ []((pc \in {"observe", "decide", "act", "record", "hints"}) =>
            elapsed < TimeoutMs)

C10_Witness ==
    /\ pc = "returned"
    /\ reason = "Time budget exhausted"
    /\ finalStatus = "partial"
    /\ Len(steps) = 1
    /\ nDecisions = 1

\* ---------------------------------------------------------------------------
\* C11  A failed decision (the completion service fails or its reply cannot be
\* normalized) ends the run at once: the reason becomes "Decision error", the
\* final status is fail however many steps were recorded and whatever
\* progress they made, no step is recorded for the failing iteration, nothing
\* is dispatched, and the decision is not asked for again.
C11_DecisionErrorFails ==
    /\ [][(pc = "decide" /\ pc' # "act") =>
            /\ reason' = "Decision error"
            /\ pc' = "after"
            /\ finalStatus' = "fail"
            /\ steps' = steps
            /\ Len(steps) = stepIndex
            /\ nDispatched' = nDispatched]_vars
    /\ [][(reason = "Decision error") =>
            /\ pc' = "returned"
            /\ reason' = "Decision error"
            /\ finalStatus' = "fail"
            /\ steps' = steps
            /\ nDecisions' = nDecisions
            /\ nDispatched' = nDispatched]_vars

\* a run that recorded a step with major progress and then failed to decide
C11_Witness ==
    /\ pc = "returned"
    /\ reason = "Decision error"
    /\ finalStatus = "fail"
    /\ Len(steps) = 1
    /\ steps[1].result.progress = "major"

\* ---------------------------------------------------------------------------
\* C12  A failed execution is caught: the result is unsuccessful with progress
\* none and carries the error text, the step is recorded with that result,
\* the no-progress counter grows by one, and the run goes on to the success
\* hint check and the next iteration; only the no-progress ceiling or a
\* success hint can end the run at that step.
C12_ExecutionFailureRecorded ==
    /\ [][(pc = "act" /\ pc' = "record" /\ ~result'.ok) =>
            /\ result'.progress = "none"
            /\ result'.error # ""
            /\ page' = page
            /\ finalStatus' = finalStatus
            /\ reason' = reason]_vars
    /\ [][(pc = "record" /\ ~result.ok /\ pc' # "threw") =>
            /\ steps' = Append(steps, StepLog(stepIndex, snapshot, action, result))
            /\ ladderState'.stepsWithoutProgress =
                   ladderState.stepsWithoutProgress + 1
            /\ \/ pc' = "hints" /\ finalStatus' = finalStatus /\ reason' = reason
               \/ ladderState'.stepsWithoutProgress >= CeilingSteps]_vars
    /\ [][(pc = "hints" /\ ~LastStep.result.ok /\ pc' # "threw") =>
            \/ pc' = "head" /\ stepIndex' = stepIndex + 1
                            /\ finalStatus' = finalStatus /\ reason' = reason
            \/ pc' = "after" /\ finalStatus' = "success"
                             /\ checkSuccessHints(Site[page], cfg.successHints)]_vars

\* a failed first step followed by a second, successful one
C12_Witness ==
    /\ Len(steps) = 2
    /\ ~steps[1].result.ok
    /\ steps[1].result.progress = "none"
    /\ steps[2].result.ok
    /\ steps[2].i = 1

(***************************************************************************)
(* assessProgress on its own: a before and an after URL, each written from *)
(* a path, an optional query and an optional fragment, and a previous      *)
(* state.                                                                  *)
(***************************************************************************)
\* everything but input and output stands still in the function-level
\* specifications
Idle ==
    /\ cfg = Config(G_browse, 1, 1, NoHints)
    /\ env = World
    /\ pc = "idle"
    /\ stepIndex = 0
    /\ elapsed = 0
    /\ page = "A"
    /\ snapshot = "A"
    /\ action = NoAction
    /\ result = NoResult
    /\ steps = << >>
    /\ ladderState = [phase |-> 0, stepsWithoutProgress |-> 0,
                      searchTermsUsed |-> << >>, helpOpened |-> FALSE]
    /\ visitedPages = [k \in PageKeys |-> 0]
    /\ finalStatus = "fail"
    /\ reason = "Unknown"
    /\ completionEvidence = << >>
    /\ lastCall = NoCall
    /\ nObserved = 0
    /\ nDecisions = 0
    /\ nDispatched = 0
    /\ orchestrator = NoOrchestrator
    /\ listener = << >>
    /\ evidence = NoEvidence
    /\ tmux = NoTmux
    /\ twin = NoTwin

UrlPaths == { <<"/">>, <<"/","a">> }
\* mark: a "?" is written; text: what follows it
UrlQueries == { [mark |-> FALSE, text |-> << >>],
                [mark |-> TRUE, text |-> << >>],
                [mark |-> TRUE, text |-> <<"q","=","1">>],
                [mark |-> TRUE, text |-> <<"q","=","2">>] }
UrlFragments == { << >>, <<"#","x">>, <<"#","?","z">> }
UrlParts == [path : UrlPaths, query : UrlQueries, fragment : UrlFragments]

UrlOf(parts) ==
    Origin \o parts.path
           \o (IF parts.query.mark THEN <<"?">> \o parts.query.text ELSE << >>)
           \o parts.fragment

PreviousStates == { NoValue, [kind |-> "state", url |-> Origin \o <<"/","a">>] }

ProgressInputs ==
    [before : UrlParts, after : UrlParts, previousState : PreviousStates]

InitProgress ==
    /\ Idle
    /\ input \in ProgressInputs
    /\ output = NoValue

ApplyAssessProgress ==
    /\ pc = "idle"
    /\ output = NoValue
    /\ output' = [kind |-> "assessProgress",
                  value |-> assessProgress(UrlOf(input.before), UrlOf(input.after),
                                           input.previousState)]
    /\ UNCHANGED <<loopVars, input>>

NextProgress == ApplyAssessProgress

SpecProgress == InitProgress /\ [][NextProgress]_vars

JStr(s) == [t |-> "string", v |-> s]
JNum(n) == [t |-> "number", v |-> n]
JArr(a) == [t |-> "array", v |-> a]
JObj(f) == [t |-> "object", v |-> f]
JNull == [t |-> "null", v |-> 0]
JUndefined == [t |-> "undefined", v |-> 0]
JNaN == [t |-> "nan", v |-> 0]

EmptyObject == [k \in {} |-> JUndefined]

\* obj[key]
Get(obj, key) ==
    IF obj.t = "object" /\ key \in DOMAIN obj.v THEN obj.v[key] ELSE JUndefined

\* the truthiness used by  !x ,  x || y  and  if (x)
Truthy(x) ==
    CASE x.t = "string" -> x.v # ""
      [] x.t = "number" -> x.v # 0
      [] x.t \in {"null", "undefined", "nan"} -> FALSE
      [] x.t \in {"object", "array"} -> TRUE

\* a ?? b
Coalesce(a, b) == IF a.t \in {"null", "undefined"} THEN b ELSE a

\* { ...base, ...over }
Spread(base, over) ==
    [k \in (DOMAIN base) \cup (DOMAIN over) |->
        IF k \in DOMAIN over THEN over[k] ELSE base[k]]

\* the own enumerable properties of an object or an array (keys "0", "1", ...)
Entries(x) ==
    IF x.t = "array"
    THEN [k \in {ToString(i - 1) : i \in DOMAIN x.v} |->
             x.v[CHOOSE i \in DOMAIN x.v : ToString(i - 1) = k]]
    ELSE x.v

\* delete obj[k] for the keys given
Delete(f, keys) == [k \in (DOMAIN f) \ keys |-> f[k]]

\* the texts that Number() reads as a number, with their values
NumericStrings ==
    ("" :> 0) @@ ("0" :> 0) @@ ("50" :> 50) @@ ("250" :> 250) @@ ("7000" :> 7000)

\* Number(x)
ToNumber(x) ==
    CASE x.t = "number" -> x
      [] x.t = "string" -> IF x.v \in DOMAIN NumericStrings
                           THEN JNum(NumericStrings[x.v]) ELSE JNaN
      [] x.t = "null" -> JNum(0)
      [] x.t \in {"undefined", "nan", "object"} -> JNaN

\* String(x)
ToText(x) ==
    CASE x.t = "string" -> x.v
      [] x.t = "number" -> ToString(x.v)
      [] x.t = "null" -> "null"
      [] x.t = "undefined" -> "undefined"
      [] x.t = "nan" -> "NaN"
      [] x.t = "object" -> "[object Object]"

Min(a, b) == IF a <= b THEN a ELSE b

MinOf(S) == CHOOSE i \in S : \A j \in S : i <= j

\* the outcome of the normalizer: an action, or a thrown Error with its message
Normalized(a) == [ok |-> TRUE, action |-> a, error |-> ""]
Failure(message) == [ok |-> FALSE, action |-> NoAction, error |-> message]

\* if (typeof action === 'string') { action = { type: action, ...parsed }; ... }
UnwrapFlatString(parsed, act) ==
    IF act.t = "string"
    THEN JObj(Delete(Spread([type |-> act], parsed.v),
                     {"action", "command"} \cup
                     (IF Truthy(Get(parsed, "thinking")) THEN {"thinking"} ELSE {})))
    ELSE act

\* if (action && typeof action === 'object' && (action.action || action.command))
UnwrapDoubleNested(act) ==
    IF /\ act.t \in {"object", "array"}
       /\ Truthy(Get(act, "action")) \/ Truthy(Get(act, "command"))
    THEN LET innerType == Coalesce(Get(act, "action"), Get(act, "command"))
         IN  IF innerType.t = "string"
             THEN LET a == Delete(Spread([type |-> innerType], act.v),
                                  {"action", "command"})
                  IN  JObj(IF "thinking" \in DOMAIN a /\ Truthy(a["thinking"])
                           THEN Delete(a, {"thinking"}) ELSE a)
             ELSE act
    ELSE act

\* if (!action.type && action.name) action.type = action.name
ApplyNameAlias(act) ==
    IF ~Truthy(Get(act, "type")) /\ Truthy(Get(act, "name"))
    THEN JObj(Spread(act.v, [type |-> Get(act, "name")]))
    ELSE act

actionTypes ==
    <<"click", "fill", "select", "scroll", "back", "wait", "search", "openHelp", "done">>

\* variant: only an object under the type key is expanded
ExpandNested_ObjectsOnly(act) ==
    IF Truthy(Get(act, "type")) THEN act
    ELSE LET hits == {i \in 1..Len(actionTypes) :
                        Get(act, actionTypes[i]).t # "undefined"}
         IN  IF hits = {} THEN act
             ELSE LET type == actionTypes[MinOf(hits)]
                      nested == Get(act, type)
                  IN  IF nested.t \in {"object", "array"}
                      THEN JObj(Spread([type |-> JStr(type)], Entries(nested)))
                      ELSE JObj([type |-> JStr(type)])

\* if (!action.type) { for (const type of actionTypes) { if (action[type] !== undefined) ...
ExpandNested(act) ==
    IF Truthy(Get(act, "type")) THEN act
    ELSE LET hits == {i \in 1..Len(actionTypes) :
                        Get(act, actionTypes[i]).t # "undefined"}
         IN  IF hits = {} THEN act
             ELSE LET type == actionTypes[MinOf(hits)]
                      nested == Get(act, type)
                  IN  IF nested.t = "string"
                      THEN JObj(IF type = "search"
                                THEN [type |-> JStr(type), query |-> nested]
                                ELSE IF type = "scroll"
                                THEN [type |-> JStr(type), direction |-> nested]
                                ELSE [type |-> JStr(type), target |-> nested])
                      ELSE IF nested.t \in {"object", "array"}
                      THEN JObj(Spread([type |-> JStr(type)], Entries(nested)))
                      ELSE JObj([type |-> JStr(type)])

\* const getProperty = (obj, ...keys) => first obj[key] !== undefined
getProperty(obj, keys) ==
    LET hits == {i \in 1..Len(keys) : Get(obj, keys[i]).t # "undefined"}
    IN  IF hits = {} THEN JUndefined ELSE Get(obj, keys[MinOf(hits)])

MinWaitMs == 100
MaxWaitMs == 5000
DefaultWaitMs == 1000

\* case 'click'
NormalizeClick(act) ==
    LET target == getProperty(act, <<"target", "element", "ref", "selector", "text">>)
    IN  IF ~Truthy(target) THEN Failure("Click action missing target")
        ELSE Normalized([type |-> "click", target |-> ToText(target)])

\* case 'fill'
NormalizeFill(act) ==
    LET target == getProperty(act, <<"target", "element", "ref", "selector", "field">>)
        value == getProperty(act, <<"value", "text", "input">>)
    IN  IF ~Truthy(target) \/ value.t = "undefined"
        THEN Failure("Fill action missing target/value")
        ELSE Normalized([type |-> "fill", target |-> ToText(target),
                         value |-> ToText(value)])

\* case 'select'
NormalizeSelect(act) ==
    LET target == getProperty(act, <<"target", "element", "ref", "selector">>)
        option == getProperty(act, <<"option", "value", "choice">>)
    IN  IF ~Truthy(target) \/ ~Truthy(option)
        THEN Failure("Select action missing target/option")
        ELSE Normalized([type |-> "select", target |-> ToText(target),
                         option |-> ToText(option)])

\* case 'scroll'
NormalizeScroll(act) ==
    LET direction == Get(act, "direction")
    IN  Normalized([type |-> "scroll",
                    direction |-> IF direction.t = "string" /\ direction.v = "up"
                                  THEN "up" ELSE "down"])

\* case 'wait': Math.min(5000, Math.max(100, Number(action.ms) || 1000))
NormalizeWait(act) ==
    LET n == ToNumber(Get(act, "ms"))
        ms == IF Truthy(n) THEN n.v ELSE DefaultWaitMs
    IN  Normalized([type |-> "wait", ms |-> Min(MaxWaitMs, Max(MinWaitMs, ms))])

\* variant: a search without a query is passed on
NormalizeSearch_Unchecked(act) ==
    LET query == getProperty(act, <<"query", "term", "text", "input", "value">>)
    IN  Normalized([type |-> "search", query |-> ToText(query)])

\* case 'search'
NormalizeSearch(act) ==
    LET query == getProperty(act, <<"query", "term", "text", "input", "value">>)
    IN  IF ~Truthy(query) THEN Failure("Search action missing query")
        ELSE Normalized([type |-> "search", query |-> ToText(query)])

\* case 'done'
NormalizeDone(act) ==
    LET r == getProperty(act, <<"reason", "message", "explanation">>)
        e == Get(act, "evidenceSteps")
    IN  Normalized([type |-> "done",
                    reason |-> IF Truthy(r) THEN ToText(r) ELSE "Task completed",
                    evidenceSteps |-> IF e.t = "array"
                                      THEN [i \in DOMAIN e.v |-> ToNumber(e.v[i])]
                                      ELSE << >>])

\* switch (action.type) { ... default: throw }
Canonicalize(act) ==
    LET type == Get(act, "type")
        name == IF type.t = "string" THEN type.v ELSE ""
    IN  CASE name = "click" -> NormalizeClick(act)
          [] name = "fill" -> NormalizeFill(act)
          [] name = "select" -> NormalizeSelect(act)
          [] name = "scroll" -> NormalizeScroll(act)
          [] name = "back" -> Normalized([type |-> "back"])
          [] name = "wait" -> NormalizeWait(act)
          [] name = "search" -> NormalizeSearch(act)
          [] name = "openHelp" -> Normalized([type |-> "openHelp"])
          [] name = "done" -> NormalizeDone(act)
          [] OTHER -> Failure("Unknown action type")

\* everything behind JSON.parse
NormalizePayload(parsed) ==
    LET located == Coalesce(Get(parsed, "action"), Get(parsed, "command"))
        unwrapped == UnwrapDoubleNested(UnwrapFlatString(parsed, located))
    IN  IF ~Truthy(unwrapped) THEN Failure("No action in response")
        ELSE LET expanded == ExpandNested(ApplyNameAlias(unwrapped))
             IN  IF ~Truthy(Get(expanded, "type"))
                 THEN Failure("Invalid action format")
                 ELSE Canonicalize(expanded)

(***************************************************************************)
(* The text of a response is what precedes the JSON document, the document *)
(* and what follows it.  The document is given by the value JSON.parse     *)
(* returns for it; body.kind is "json" for a document, "garbled" for a     *)
(* brace-delimited text that is not JSON, "none" when there is neither.    *)
(* Removing the code fences and trimming take no brace away, so they do    *)
(* not change which span the pattern /\{[\s\S]*\}/ finds.                  *)
(***************************************************************************)
Response(prefix, body, suffix) == [prefix |-> prefix, body |-> body, suffix |-> suffix]

NoBody == [kind |-> "none", value |-> JUndefined]
Garbled == [kind |-> "garbled", value |-> JUndefined]
Document(value) == [kind |-> "json", value |-> value]

\* !text || text.trim() === ''
IsBlank(text) ==
    /\ text.body.kind = "none"
    /\ \A i \in 1..Len(text.prefix) : IsSpaceChar(text.prefix[i])
    /\ \A i \in 1..Len(text.suffix) : IsSpaceChar(text.suffix[i])

\* cleanText.match(/\{[\s\S]*\}/): an opening brace with a closing one behind it
HasJsonSpan(text) ==
    \/ text.body.kind # "none"
    \/ LET around == text.prefix \o text.suffix
       IN  \E i, j \in 1..Len(around) :
              i < j /\ around[i] = "{" /\ around[j] = "}"

\* JSON.parse(jsonMatch[0]); the span runs from the first "{" to the last "}"
JSONParse(text) ==
    IF /\ text.body.kind = "json"
       /\ ~InSeq("{", text.prefix)
       /\ ~InSeq("}", text.suffix)
    THEN text.body.value
    ELSE JUndefined

parseActionResponse(text) ==
    IF IsBlank(text) THEN Failure("Empty response from Claude CLI")
    ELSE IF ~HasJsonSpan(text) THEN Failure("No JSON found in response")
    ELSE LET parsed == JSONParse(text)
         IN  IF parsed.t = "undefined" THEN Failure("Invalid JSON in response")
             ELSE NormalizePayload(parsed)

(***************************************************************************)
(* parseActionResponse on its own.  A response is written from an action   *)
(* type, a set of fields and one of the shapes the completion service is   *)
(* known to answer in, inside a wrapping text; or it is one of a few texts *)
(* given as they are.                                                      *)
(***************************************************************************)
\* the grave accent of a code fence, which a TLA+ string cannot hold
Backtick == "grave"
T_fence_open == <<Backtick, Backtick, Backtick, "j","s","o","n","\n">>
T_fence_close == <<"\n", Backtick, Backtick, Backtick>>
T_sure == <<"S","u","r","e",":"," ">>
T_done == <<" ","D","o","n","e",".">>
T_blank == <<" ","\n","\t">>
T_refusal == <<"I"," ","c","a","n","n","o","t",".">>
T_braces == <<"{","a","}"," ">>
T_unpaired == <<"}"," ","{">>

ResponseTypes == {actionTypes[i] : i \in 1..Len(actionTypes)} \cup {"tap"}

MsValues == {-5, 0, 1, 99, 100, 101, 1000, 4999, 5000, 5001}

FieldSets ==
    { EmptyObject,
      [target |-> JStr("btn_1")], [target |-> JStr("")], [target |-> JNum(7)],
      [target |-> JNull],
      [element |-> JStr("btn_1")], [ref |-> JStr("btn_1")],
      [selector |-> JStr("btn_1")], [text |-> JStr("Sign in")],
      [field |-> JStr("email")],
      [target |-> JStr("inp_1"), value |-> JStr("hello")],
      [target |-> JStr("inp_1"), value |-> JStr("")],
      [target |-> JStr("inp_1"), value |-> JNum(0)],
      [target |-> JStr("inp_1"), input |-> JStr("hello")],
      [field |-> JStr("email"), text |-> JStr("hello")],
      [value |-> JStr("hello")],
      [target |-> JStr("sel_1"), option |-> JStr("Red")],
      [target |-> JStr("sel_1"), option |-> JStr("")],
      [target |-> JStr("sel_1"), choice |-> JStr("Red")],
      [option |-> JStr("Red")],
      [direction |-> JStr("up")], [direction |-> JStr("down")],
      [direction |-> JStr("sideways")],
      [query |-> JStr("pricing")], [query |-> JStr("")], [term |-> JStr("pricing")],
      [reason |-> JStr("Found it"), evidenceSteps |-> JArr(<<JNum(0), JNum(1)>>)],
      [reason |-> JStr("Found it")],
      [message |-> JStr("ok"), evidenceSteps |-> JArr(<<JStr("0"), JStr("abc")>>)],
      [reason |-> JStr(""), evidenceSteps |-> JStr("all")] }
    \cup { [ms |-> JNum(n)] : n \in MsValues }
    \cup { [ms |-> JStr("250")], [ms |-> JStr("7000")], [ms |-> JStr("abc")],
           [ms |-> JStr("")], [ms |-> JNull] }

Shapes == { "flat", "flatCommand", "string", "commandString", "double",
            "doubleCommand", "named", "nested", "shorthand" }

\* the field a bare string under a type key stands for
PrimaryField(type) ==
    IF type = "search" THEN "query" ELSE IF type = "scroll" THEN "direction" ELSE "target"

HasShorthand(type, fields) ==
    /\ DOMAIN fields = {PrimaryField(type)}
    /\ fields[PrimaryField(type)].t = "string"

\* the JSON document that says (type, fields) in the given shape
Payload(shape, type, fields, thinking) ==
    LET t == JStr(type)
        body == CASE shape = "flat" -> [action |-> JObj(Spread(fields, [type |-> t]))]
                  [] shape = "flatCommand" ->
                         [command |-> JObj(Spread(fields, [type |-> t]))]
                  [] shape = "string" -> Spread(fields, [action |-> t])
                  [] shape = "commandString" -> Spread(fields, [command |-> t])
                  [] shape = "double" ->
                         [action |-> JObj(Spread(fields, [action |-> t]))]
                  [] shape = "doubleCommand" ->
                         [action |-> JObj(Spread(fields, [command |-> t]))]
                  [] shape = "named" -> [action |-> JObj(Spread(fields, [name |-> t]))]
                  [] shape = "nested" -> [action |-> JObj([k \in {type} |-> JObj(fields)])]
                  [] shape = "shorthand" ->
                         [action |-> JObj([k \in {type} |-> fields[PrimaryField(type)]])]
    IN  JObj(IF thinking THEN Spread(body, [thinking |-> JStr("I should act")])
             ELSE body)

Wrappings == { <<<< >>, << >>>>, <<T_fence_open, T_fence_close>>, <<T_sure, T_done>> }

ShapedInputs ==
    { in \in [shape : Shapes, type : ResponseTypes, fields : FieldSets,
              thinking : BOOLEAN, wrapping : Wrappings, body : {NoBody}] :
        in.shape = "shorthand" => HasShorthand(in.type, in.fields) }

RawBodies ==
    { NoBody, Garbled,
      Document(JObj(EmptyObject)),
      Document(JObj([thinking |-> JStr("I should act")])),
      Document(JObj([type |-> JStr("click"), target |-> JStr("btn_1")])),
      Document(JObj([action |-> JNull])),
      Document(JObj([action |-> JNum(5)])),
      Document(JObj([action |-> JObj(EmptyObject)])),
      Document(JObj([action |-> JArr(<< >>)])),
      Document(JObj([action |-> JNull, command |-> JStr("back")])),
      Document(JObj([action |-> JObj([type |-> JStr("click"),
                                      target |-> JStr("btn_1")])])) }

RawInputs ==
    [shape : {"raw"}, type : {""}, fields : {EmptyObject}, thinking : {FALSE},
     wrapping : Wrappings \cup { <<T_blank, T_blank>>, <<T_refusal, << >>>>,
                                <<T_fence_open, << >>>>, <<T_unpaired, << >>>>,
                                <<T_braces, << >>>>, <<T_sure, T_unpaired>> },
     body : RawBodies]

\* the text handed to parseActionResponse
TextOf(in) ==
    Response(in.wrapping[1],
             IF in.shape = "raw" THEN in.body
             ELSE Document(Payload(in.shape, in.type, in.fields, in.thinking)),
             in.wrapping[2])

InitNormalizer ==
    /\ Idle
    /\ input \in ShapedInputs \cup RawInputs
    /\ output = NoValue

ApplyParseActionResponse ==
    /\ pc = "idle"
    /\ output = NoValue
    /\ output' = [kind |-> "parseActionResponse",
                  value |-> parseActionResponse(TextOf(input))]
    /\ UNCHANGED <<loopVars, input>>

NextNormalizer == ApplyParseActionResponse

SpecNormalizer == InitNormalizer /\ [][NextNormalizer]_vars

\* what the normalizer gives for (type, fields) said in the flat shape
FlatOutcome(type, fields) ==
    parseActionResponse(
        Response(<< >>, Document(Payload("flat", type, fields, FALSE)), << >>))

KnownTypes == {actionTypes[i] : i \in 1..Len(actionTypes)}

Applied == output.kind = "parseActionResponse"

\* ---------------------------------------------------------------------------
\* C14  For each of the nine action types and each set of fields, a response
\* in any of the shapes (flat under action or command, flattened string under
\* action or command, double-nested, name-aliased, fully nested, shorthand
\* string), with or without a thinking key and a wrapping text, normalizes to
\* the same action, or the same failure, as the flat shape; the three ways of
\* saying "click btn_1" all give click{target: "btn_1"}.
C14_ShapesAgree ==
    (Applied /\ input.shape \in Shapes /\ input.type \in KnownTypes) =>
        /\ output.value = FlatOutcome(input.type, input.fields)
        /\ (input.type = "click" /\ input.fields = [target |-> JStr("btn_1")]) =>
               output.value = Normalized([type |-> "click", target |-> "btn_1"])

\* {"action":{"click":"btn_1"}} inside a code fence, normalized to the click
C14_Witness ==
    /\ Applied
    /\ input.shape = "shorthand"
    /\ input.type = "click"
    /\ input.fields = [target |-> JStr("btn_1")]
    /\ input.wrapping = <<T_fence_open, T_fence_close>>
    /\ output.value = Normalized([type |-> "click", target |-> "btn_1"])

\* ---------------------------------------------------------------------------
\* C15  For a wait action the normalized ms is the given ms clamped into
\* [100, 5000] when ms is a number or a numeric text (0 and every other
\* number below 100 give 100, numbers above 5000 give 5000), and 1000 when ms
\* is absent or not a number; it always lies within [100, 5000].
C15_WaitClamp ==
    (Applied /\ input.shape \in Shapes /\ input.type = "wait") =>
        LET ms == Get(JObj(input.fields), "ms")
            given == IF ms.t = "number" THEN ms.v
                     ELSE IF ms = JStr("250") THEN 250
                     ELSE IF ms = JStr("7000") THEN 7000
                     ELSE DefaultWaitMs
            clamped == IF given < MinWaitMs THEN MinWaitMs
                       ELSE IF given > MaxWaitMs THEN MaxWaitMs ELSE given
        IN  /\ output.value.ok
            /\ output.value.action.type = "wait"
            /\ output.value.action.ms >= MinWaitMs
            /\ output.value.action.ms <= MaxWaitMs
            /\ (ms.t \in {"number", "undefined"} \/ ms \in {JStr("250"), JStr("7000"), JStr("abc")})
                   => output.value.action.ms = clamped

TargetKeys == {"target", "element", "ref", "selector", "text", "field"}
ValueKeys == {"value", "text", "input"}
OptionKeys == {"option", "value", "choice"}
QueryKeys == {"query", "term", "text", "input", "value"}

\* ---------------------------------------------------------------------------
\* C16  The normalizer fails, and gives no action, on an empty or blank text,
\* on a text without a {...} span, on a document without an action or command
\* key, on a click without any target key, a fill without any target key or
\* without any value key, a select without any target key or without any
\* option key, a search without any query key, and on a type that is not one
\* of the nine; the failure for a missing field names the action.
C16_Failures ==
    Applied =>
        LET v == output.value
            text == TextOf(input)
            lacks(keys) == (DOMAIN input.fields) \cap keys = {}
            shaped == input.shape \in Shapes
            chars == text.prefix \o text.suffix
        IN  /\ ~v.ok => v.action = NoAction /\ v.error # ""
            /\ (text.body = NoBody /\ \A i \in 1..Len(chars) : chars[i] \in {" ", "\n", "\t"})
                   => ~v.ok /\ v.error = "Empty response from Claude CLI"
            /\ (text.body = NoBody /\ ~InSeq("}", chars)) => ~v.ok
            /\ (text.body.kind = "json"
                  /\ (DOMAIN text.body.value.v) \cap {"action", "command"} = {})
                   => ~v.ok
            /\ (shaped /\ input.type = "click" /\ lacks(TargetKeys))
                   => ~v.ok /\ v.error = "Click action missing target"
            /\ (shaped /\ input.type = "fill" /\ (lacks(TargetKeys) \/ lacks(ValueKeys)))
                   => ~v.ok /\ v.error = "Fill action missing target/value"
            /\ (shaped /\ input.type = "select"
                  /\ (lacks(TargetKeys) \/ lacks(OptionKeys)))
                   => ~v.ok /\ v.error = "Select action missing target/option"
            /\ (shaped /\ input.type = "search" /\ lacks(QueryKeys))
                   => ~v.ok /\ v.error = "Search action missing query"
            /\ (shaped /\ input.type \notin KnownTypes) => ~v.ok

\* a search said in the name-aliased shape with a target but no query
C16_Witness ==
    /\ Applied
    /\ input.shape = "named"
    /\ input.type = "search"
    /\ input.fields = [target |-> JStr("btn_1")]
    /\ ~output.value.ok
    /\ output.value.error = "Search action missing query"

(***************************************************************************)
(* The run evaluator (evaluator.ts).  A step is the record the loop logs;  *)
(* its snapshot is Site[step.url].                                         *)
(***************************************************************************)
StuckRunLength == 3
LongWindowLength == 6
BacktrackThreshold == 3
ManyBacktracks == 5
ManyConsoleErrors == 5
ManyFailedRequests == 3
MaxFindings == 7

\* getPageKey(step.snapshot), new URL(step.url).pathname
PageKey == [p \in PageIds |-> getPageKey(Site[p])]
PagePath == [p \in PageIds |-> pathname(Site[p].url)]

\* result.notes as text
N_Executed == <<"E","x","e","c","u","t","e","d">>
N_ActionFailed == <<"A","c","t","i","o","n"," ","f","a","i","l","e","d">>
N_ProtocolError == N_ActionFailed \o <<":"," ","P","r","o","t","o","c","o","l"," ","e","r","r","o","r">>
N_Declared == <<"A","g","e","n","t"," ","d","e","c","l","a","r","e","d"," ","t","a","s","k"," ","c","o","m","p","l","e","t","e">>
N_ValidationFailed == <<"V","a","l","i","d","a","t","i","o","n"," ","f","a","i","l","e","d">>
T_validation == <<"v","a","l","i","d","a","t","i","o","n">>
T_error == <<"e","r","r","o","r">>

NoteText(notes) ==
    CASE notes = "Executed" -> N_Executed
      [] notes = "Action failed" -> N_ActionFailed
      [] notes = "Action failed: Protocol error" -> N_ProtocolError
      [] notes = "Agent declared task complete" -> N_Declared
      [] notes = "Validation failed" -> N_ValidationFailed

\* the for loop of calculateMetrics, from step i on; m holds its counters
RECURSIVE MetricsLoop(_, _, _)
MetricsLoop(trace, i, m) ==
    IF i > Len(trace) THEN m
    ELSE LET step == trace[i]
             pageKey == PageKey[step.url]
             moved == /\ i > 1
                      /\ Site[step.url].url # Site[trace[i - 1].url].url
                      /\ PagePath[trace[i - 1].url] # PagePath[step.url]
         IN  MetricsLoop(trace, i + 1,
                [pageTransitions |-> m.pageTransitions + (IF moved THEN 1 ELSE 0),
                 backtracks |-> m.backtracks +
                                (IF InSeq(pageKey, m.pageVisits) THEN 1 ELSE 0),
                 pageVisits |-> Append(m.pageVisits, pageKey),
                 searchUsed |-> m.searchUsed \/ step.action.type = "search",
                 consoleErrors |-> m.consoleErrors + Len(step.errors.console),
                 failedRequests |-> m.failedRequests + Len(step.errors.network)])

\* the for loop of detectStuckEvents, from step i on: the events still to count
RECURSIVE StuckLoop(_, _, _, _)
StuckLoop(trace, i, consecutiveCount, lastPageKey) ==
    IF i > Len(trace) THEN 0
    ELSE IF PageKey[trace[i].url] = lastPageKey
    THEN IF consecutiveCount + 1 >= StuckRunLength
         THEN 1 + StuckLoop(trace, i + 1, 0, lastPageKey)
         ELSE StuckLoop(trace, i + 1, consecutiveCount + 1, lastPageKey)
    ELSE StuckLoop(trace, i + 1, 1, PageKey[trace[i].url])

\* variant: the counter is not reset when an event is counted
RECURSIVE StuckLoop_NoReset(_, _, _, _)
StuckLoop_NoReset(trace, i, consecutiveCount, lastPageKey) ==
    IF i > Len(trace) THEN 0
    ELSE IF PageKey[trace[i].url] = lastPageKey
    THEN IF consecutiveCount + 1 >= StuckRunLength
         THEN 1 + StuckLoop_NoReset(trace, i + 1, consecutiveCount + 1, lastPageKey)
         ELSE StuckLoop_NoReset(trace, i + 1, consecutiveCount + 1, lastPageKey)
    ELSE StuckLoop_NoReset(trace, i + 1, 1, PageKey[trace[i].url])

detectStuckEvents_NoReset(trace) ==
    IF Len(trace) < StuckRunLength THEN 0 ELSE StuckLoop_NoReset(trace, 1, 1, << >>)

detectStuckEvents(trace) ==
    IF Len(trace) < StuckRunLength THEN 0 ELSE StuckLoop(trace, 1, 1, << >>)

calculateMetrics(trace) ==
    LET m == MetricsLoop(trace, 1,
                [pageTransitions |-> 0, backtracks |-> 0, pageVisits |-> << >>,
                 searchUsed |-> FALSE, consoleErrors |-> 0, failedRequests |-> 0])
    IN  [steps |-> Len(trace),
         pageTransitions |-> m.pageTransitions,
         backtracks |-> m.backtracks,
         searchUsed |-> m.searchUsed,
         stuckEvents |-> detectStuckEvents(trace),
         consoleErrors |-> m.consoleErrors,
         failedRequests |-> m.failedRequests]

\* the for loop of findStuckWindows, from step i on: the windows still to push
RECURSIVE WindowLoop(_, _, _, _)
WindowLoop(trace, i, currentWindow, lastPageKey) ==
    IF i > Len(trace)
    THEN IF Len(currentWindow) >= StuckRunLength THEN <<currentWindow>> ELSE << >>
    ELSE IF PageKey[trace[i].url] = lastPageKey
    THEN WindowLoop(trace, i + 1, Append(currentWindow, trace[i]), lastPageKey)
    ELSE (IF Len(currentWindow) >= StuckRunLength THEN <<currentWindow>> ELSE << >>)
         \o WindowLoop(trace, i + 1, <<trace[i]>>, PageKey[trace[i].url])

\* variant: the window still open at the end of the trace is dropped
RECURSIVE WindowLoop_DropsLast(_, _, _, _)
WindowLoop_DropsLast(trace, i, currentWindow, lastPageKey) ==
    IF i > Len(trace) THEN << >>
    ELSE IF PageKey[trace[i].url] = lastPageKey
    THEN WindowLoop_DropsLast(trace, i + 1, Append(currentWindow, trace[i]), lastPageKey)
    ELSE (IF Len(currentWindow) >= StuckRunLength THEN <<currentWindow>> ELSE << >>)
         \o WindowLoop_DropsLast(trace, i + 1, <<trace[i]>>, PageKey[trace[i].url])

findStuckWindows_DropsLast(trace) == WindowLoop_DropsLast(trace, 1, << >>, << >>)

findStuckWindows(trace) == WindowLoop(trace, 1, << >>, << >>)

\* the for loop of findBacktrackSteps, from step i on
RECURSIVE BacktrackLoop(_, _, _)
BacktrackLoop(trace, i, seenPages) ==
    IF i > Len(trace) THEN << >>
    ELSE IF PageKey[trace[i].url] \in seenPages
    THEN <<trace[i]>> \o BacktrackLoop(trace, i + 1, seenPages)
    ELSE BacktrackLoop(trace, i + 1, seenPages \cup {PageKey[trace[i].url]})

findBacktrackSteps(trace) == BacktrackLoop(trace, 1, {})

Finding(type, severity, title, step) ==
    [type |-> type, severity |-> severity, title |-> title, evidence |-> [step |-> step]]

\* severity: window.length >= 6 ? 'high' : 'med'
WindowSeverity(length) == IF length >= LongWindowLength THEN "high" ELSE "med"

\* variant: only more than five backtracks are high
BacktrackSeverity_Above(backtracks) == IF backtracks > ManyBacktracks THEN "high" ELSE "med"

\* severity: metrics.backtracks >= 5 ? 'high' : 'med'
BacktrackSeverity(backtracks) == IF backtracks >= ManyBacktracks THEN "high" ELSE "med"

\* 1. one finding per stuck window
WindowFindings(trace) ==
    LET kept == SelectSeq(findStuckWindows(trace),
                          LAMBDA w : Len(w) >= StuckRunLength)
    IN  [k \in 1..Len(kept) |->
            Finding("discoverability", WindowSeverity(Len(kept[k])),
                    "Navigation difficulty", kept[k][1].i)]

\* 2. repeated searches
SearchFindings(trace) ==
    LET searchSteps == SelectSeq(trace, LAMBDA s : s.action.type = "search")
    IN  IF Len(searchSteps) >= 2
        THEN << Finding("discoverability", "med", "Required search to find feature",
                        searchSteps[1].i) >>
        ELSE << >>

\* 3. backtracking
BacktrackFindings(trace, metrics) ==
    IF metrics.backtracks >= BacktrackThreshold
    THEN LET backtrackSteps == findBacktrackSteps(trace)
         IN  IF Len(backtrackSteps) > 0
             THEN << Finding("discoverability", BacktrackSeverity(metrics.backtracks),
                             "Excessive navigation backtracking", backtrackSteps[1].i) >>
             ELSE << >>
    ELSE << >>

\* 4. console errors
ConsoleFindings(trace, metrics) ==
    LET stepsWithErrors == SelectSeq(trace, LAMBDA s : Len(s.errors.console) > 0)
    IN  IF Len(stepsWithErrors) > 0
        THEN << Finding("bug",
                        IF metrics.consoleErrors >= ManyConsoleErrors THEN "high" ELSE "med",
                        "Console errors detected", stepsWithErrors[1].i) >>
        ELSE << >>

\* 5. network failures
NetworkFindings(trace, metrics) ==
    LET stepsWithNetworkErrors == SelectSeq(trace, LAMBDA s : Len(s.errors.network) > 0)
    IN  IF Len(stepsWithNetworkErrors) > 0
        THEN << Finding("bug",
                        IF metrics.failedRequests >= ManyFailedRequests THEN "high" ELSE "low",
                        "Failed network requests", stepsWithNetworkErrors[1].i) >>
        ELSE << >>

\* progress === 'some' && notes has 'validation' || notes has 'error'
IsValidationStep(s) ==
    \/ /\ s.result.progress = "some"
       /\ includes(toLowerCase(NoteText(s.result.notes)), T_validation)
    \/ includes(toLowerCase(NoteText(s.result.notes)), T_error)

\* 6. validation issues
ValidationFindings(trace) ==
    LET validationSteps == SelectSeq(trace, IsValidationStep)
    IN  IF Len(validationSteps) > 0
        THEN << Finding("validation", "low", "Form validation triggered",
                        validationSteps[1].i)
                @@ [count |-> Len(validationSteps)] >>
        ELSE << >>

\* 7. help ladder escalation
HelpFindings(trace) ==
    LET helpSteps == SelectSeq(trace, LAMBDA s : s.action.type = "openHelp")
    IN  IF Len(helpSteps) > 0
        THEN << Finding("discoverability", "med", "Agent needed to access help",
                        helpSteps[1].i) >>
        ELSE << >>

\* the findings in the order identifyFindings pushes them
CollectFindings(trace, metrics) ==
    WindowFindings(trace) \o SearchFindings(trace) \o BacktrackFindings(trace, metrics)
        \o ConsoleFindings(trace, metrics) \o NetworkFindings(trace, metrics)
        \o ValidationFindings(trace) \o HelpFindings(trace)

\* variant: the list is cut to seven entries before it is sorted
RankFindings_SliceFirst(findings) ==
    LET cut == SubSeq(findings, 1, Min(MaxFindings, Len(findings)))
    IN  SelectSeq(cut, LAMBDA f : f.severity = "high")
        \o SelectSeq(cut, LAMBDA f : f.severity = "med")
        \o SelectSeq(cut, LAMBDA f : f.severity = "low")

\* findings.sort by severityOrder (stable), then slice(0, 7)
RankFindings(findings) ==
    LET sorted == SelectSeq(findings, LAMBDA f : f.severity = "high")
                  \o SelectSeq(findings, LAMBDA f : f.severity = "med")
                  \o SelectSeq(findings, LAMBDA f : f.severity = "low")
    IN  SubSeq(sorted, 1, Min(MaxFindings, Len(sorted)))

identifyFindings(trace, metrics) == RankFindings(CollectFindings(trace, metrics))

\* the part of the report that is computed from the steps
evaluateRun(trace) ==
    LET metrics == calculateMetrics(trace)
    IN  [metrics |-> metrics,
         unranked |-> CollectFindings(trace, metrics),
         findings |-> identifyFindings(trace, metrics)]

(***************************************************************************)
(* evaluateRun on its own: a trace is a sequence of visited pages, logged  *)
(* as steps 0, 1, ... and dressed with searches, a help step or errors.    *)
(***************************************************************************)
MaxTrace == 7
MaxDressedTrace == 4

SearchPlans == [type |-> "search", query |-> T_plans]

Decorations == {"plain", "search", "help", "errors", "validation"}

\* the pages of the traces dressed with everything at once
FullPages == {"A", "C", "D"}

FiveErrors == <<"TypeError", "TypeError", "TypeError", "TypeError", "TypeError">>

\* the k-th step (i = k - 1) of a trace on page p
TraceStep(k, p, decoration) ==
    [i |-> k - 1,
     url |-> p,
     action |-> IF decoration \in {"search", "full"} /\ k \in {1, 3} THEN SearchPlans
                ELSE IF decoration \in {"help", "full"} /\ k = 2 THEN OpenHelp
                ELSE ClickPricing,
     result |-> IF decoration \in {"errors", "full"} /\ k = 2
                THEN [ok |-> FALSE, notes |-> "Action failed: Protocol error",
                      error |-> "Error", progress |-> "none"]
                ELSE IF decoration = "validation" /\ k = 1
                THEN [ok |-> TRUE, notes |-> "Validation failed", progress |-> "some"]
                ELSE IF decoration = "validation" /\ k = 2
                THEN [ok |-> TRUE, notes |-> "Executed", progress |-> "some"]
                ELSE IF decoration = "validation" /\ k = 3
                THEN [ok |-> TRUE, notes |-> "Validation failed", progress |-> "none"]
                ELSE [ok |-> TRUE, notes |-> "Executed", progress |-> "none"],
     errors |-> IF decoration = "errors" /\ k = 1
                THEN [console |-> <<"TypeError">>, network |-> <<"GET /api 500">>]
                ELSE IF decoration = "full" /\ k = 1
                THEN [console |-> FiveErrors, network |-> <<"GET /api 500">>]
                ELSE NoErrors]

TraceOf(pages, decoration) ==
    [k \in 1..Len(pages) |-> TraceStep(k, pages[k], decoration)]

\* plain traces up to MaxTrace steps, dressed ones up to MaxDressedTrace
EvalInputs ==
    [pages : SeqsUpTo(PageIds, MaxTrace), decoration : {"plain"}]
    \cup [pages : SeqsUpTo(PageIds, MaxDressedTrace), decoration : Decorations]
    \cup [pages : SeqsUpTo(FullPages, MaxTrace), decoration : {"full"}]

InitEval ==
    /\ Idle
    /\ input \in EvalInputs
    /\ output = NoValue

ApplyEvaluateRun ==
    /\ pc = "idle"
    /\ output = NoValue
    /\ output' = [kind |-> "evaluateRun",
                  value |-> evaluateRun(TraceOf(input.pages, input.decoration))]
    /\ UNCHANGED <<loopVars, input>>

NextEval == ApplyEvaluateRun

SpecEval == InitEval /\ [][NextEval]_vars

(***************************************************************************)
(* Vocabulary for the evaluator properties, stated on the visited pages.   *)
(***************************************************************************)
Evaluated == output.kind = "evaluateRun"

\* the page identity key of the k-th step of the input trace
KeyAt(k) == PageKey[input.pages[k]]

AllSamePage == \A k \in 1..Len(input.pages) : KeyAt(k) = KeyAt(1)

\* the first step of the maximal run of equal keys that holds step k
RunStart(k) ==
    CHOOSE s \in 1..k :
        /\ \A j \in s..k : KeyAt(j) = KeyAt(k)
        /\ s = 1 \/ KeyAt(s - 1) # KeyAt(k)

\* the maximal runs of consecutive steps with equal keys, as <<first, last>>
MaximalRuns ==
    { r \in (1..Len(input.pages)) \X (1..Len(input.pages)) :
        /\ r[1] <= r[2]
        /\ RunStart(r[2]) = r[1]
        /\ r[2] = Len(input.pages) \/ KeyAt(r[2] + 1) # KeyAt(r[2]) }

\* the steps whose key was seen at an earlier step
RevisitSteps == { k \in 1..Len(input.pages) : \E j \in 1..(k - 1) : KeyAt(j) = KeyAt(k) }

Titled(findings, title) == SelectSeq(findings, LAMBDA f : f.title = title)

\* ---------------------------------------------------------------------------
\* C17  The stuck-event count is the sum, over the maximal runs of consecutive
\* steps with the same page identity key, of the run length divided by three
\* and rounded down: every third step of a run counts one event.  A trace of
\* n steps on one page gives n div 3 events (2 for 6 and for 7 steps).
C17_StuckEvents ==
    Evaluated =>
        /\ output.value.metrics.stuckEvents =
              Cardinality({ k \in 1..Len(input.pages) : (k - RunStart(k) + 1) % 3 = 0 })
        /\ AllSamePage => output.value.metrics.stuckEvents = Len(input.pages) \div 3

\* seven steps with one key (under two URLs) counted as two events
C17_Witness ==
    /\ Evaluated
    /\ input.pages = <<"A", "B", "A", "B", "A", "A", "B">>
    /\ AllSamePage
    /\ output.value.metrics.stuckEvents = 2

\* ---------------------------------------------------------------------------
\* C18  A trace of exactly six steps on one page, without searches, help steps
\* or errors, gives a stuck-event count of 2 and, among the findings, exactly
\* one discoverability finding, of severity high.
C18_SixStepStall ==
    (Evaluated /\ input.decoration = "plain" /\ Len(input.pages) = 6 /\ AllSamePage) =>
        LET found == SelectSeq(output.value.findings,
                               LAMBDA f : f.type = "discoverability")
        IN  /\ output.value.metrics.stuckEvents = 2
            /\ Len(found) = 1
            /\ found[1].severity = "high"

\* ---------------------------------------------------------------------------
\* C19  Before ranking and truncation there is exactly one stalled-window
\* finding for each maximal run of three or more consecutive steps with the
\* same key, and none for shorter runs; its type is discoverability, its
\* severity high when the run has six or more steps and med otherwise, and
\* its evidence step is the index of the first step of the run.
C19_StalledWindows ==
    Evaluated =>
        LET windows == Titled(output.value.unranked, "Navigation difficulty")
            long == { r \in MaximalRuns : r[2] - r[1] + 1 >= 3 }
        IN  /\ Len(windows) = Cardinality(long)
            /\ \A r \in long :
                  \E k \in 1..Len(windows) :
                     /\ windows[k].evidence.step = r[1] - 1
                     /\ windows[k].type = "discoverability"
                     /\ windows[k].severity =
                            IF r[2] - r[1] + 1 >= 6 THEN "high" ELSE "med"
            /\ \A k \in 1..Len(windows) :
                  \E r \in long : windows[k].evidence.step = r[1] - 1

\* a run of three steps followed by a run of four: two findings, at steps 0 and 3
C19_Witness ==
    /\ Evaluated
    /\ input.pages = <<"A", "B", "A", "C", "C", "C", "C">>
    /\ Len(Titled(output.value.unranked, "Navigation difficulty")) = 2
    /\ Titled(output.value.unranked, "Navigation difficulty")[2].evidence.step = 3
    /\ Titled(output.value.unranked, "Navigation difficulty")[2].severity = "med"

\* ---------------------------------------------------------------------------
\* C20  identifyFindings pushes exactly one excessive-backtracking finding
\* when the backtrack metric is at least 3 and none otherwise; its type is
\* discoverability, its severity med for 3 or 4 backtracks and high for 5 or
\* more, and its evidence step is the first step whose key was seen earlier.
C20_BacktrackFinding ==
    Evaluated =>
        LET found == Titled(output.value.unranked, "Excessive navigation backtracking")
            backtracks == output.value.metrics.backtracks
        IN  /\ Len(found) = IF backtracks >= 3 THEN 1 ELSE 0
            /\ backtracks >= 3 =>
                  /\ found[1].type = "discoverability"
                  /\ found[1].severity = IF backtracks >= 5 THEN "high" ELSE "med"
                  /\ RevisitSteps # {}
                  /\ found[1].evidence.step = MinOf(RevisitSteps) - 1

\* five returns to pages seen before, without any stalled window
C20_Witness ==
    /\ Evaluated
    /\ input.pages = <<"A", "C", "A", "C", "A", "C", "A">>
    /\ output.value.metrics.backtracks = 5
    /\ output.value.metrics.stuckEvents = 0
    /\ Titled(output.value.findings, "Excessive navigation backtracking")
          = << Finding("discoverability", "high",
                       "Excessive navigation backtracking", 2) >>

\* severityOrder = { high: 0, med: 1, low: 2 }
SeverityRank(f) == IF f.severity = "high" THEN 0 ELSE IF f.severity = "med" THEN 1 ELSE 2

\* the entries of list that rank before entry i: a more severe one, or an
\* equally severe one discovered earlier
RankedBefore(list, i) ==
    { j \in 1..Len(list) :
        \/ SeverityRank(list[j]) < SeverityRank(list[i])
        \/ SeverityRank(list[j]) = SeverityRank(list[i]) /\ j < i }

\* ---------------------------------------------------------------------------
\* C21  The returned findings have at most seven entries, all high ones before
\* all med ones before all low ones; the k-th returned finding is the
\* discovered finding that has exactly k - 1 others ranked before it (a more
\* severe one, or an equally severe one discovered earlier), so equal
\* severities keep their discovery order and what is dropped beyond seven is
\* the lowest ranked.
C21_RankedAndTruncated ==
    Evaluated =>
        LET found == output.value.unranked
            kept == output.value.findings
        IN  /\ Len(kept) <= 7
            /\ Len(kept) = IF Len(found) > 7 THEN 7 ELSE Len(found)
            /\ \A i, j \in 1..Len(kept) :
                  i < j => SeverityRank(kept[i]) <= SeverityRank(kept[j])
            /\ \A k \in 1..Len(kept) :
                  \E i \in 1..Len(found) :
                     /\ Cardinality(RankedBefore(found, i)) = k - 1
                     /\ kept[k] = found[i]

\* eight findings discovered; the high console finding moves to the front and
\* the low validation finding, ranked last, is dropped
C21_Witness ==
    /\ Evaluated
    /\ input.decoration = "full"
    /\ Len(output.value.unranked) = 8
    /\ output.value.unranked[1].title = "Navigation difficulty"
    /\ output.value.unranked[7].title = "Form validation triggered"
    /\ Len(output.value.findings) = 7
    /\ output.value.findings[1].title = "Console errors detected"
    /\ output.value.findings[7].title = "Failed network requests"

\* the steps of a trace that made progress and whose notes mention validation
\* or error text
ProgressingValidationSteps(trace) ==
    { k \in 1..Len(trace) :
        /\ trace[k].result.progress = "some"
        /\ \/ includes(toLowerCase(NoteText(trace[k].result.notes)), T_validation)
           \/ includes(toLowerCase(NoteText(trace[k].result.notes)), T_error) }

\* ---------------------------------------------------------------------------
\* C22  A validation finding is discovered exactly when some step has
\* progress "some" and notes that mention validation or error text, and its
\* count is the number of such steps; a trace in which no step has progress
\* "some" has no validation finding.
C22_ValidationFinding ==
    Evaluated =>
        LET trace == TraceOf(input.pages, input.decoration)
            found == Titled(output.value.unranked, "Form validation triggered")
        IN  /\ (found # << >>) <=> (ProgressingValidationSteps(trace) # {})
            /\ \A k \in 1..Len(found) :
                  found[k].count = Cardinality(ProgressingValidationSteps(trace))

\* A terminal condition of runAgentLoop has occurred: reason is assigned only
\* where the loop ends (done, hint success, blocked destructive action,
\* decision error, ceiling, time budget), the step budget ends the loop at
\* its head, and behind the loop nothing of it remains.
TerminalConditionOccurred ==
    \/ reason # "Unknown"
    \/ pc = "head" /\ stepIndex >= cfg.maxSteps
    \/ pc \in {"after", "returned", "threw"}

\* ---------------------------------------------------------------------------
\* C23  Once a terminal condition has occurred, no step of the run requests
\* an observation or a decision, dispatches an action to the driver, or
\* appends a step (the listener is notified exactly when a step is appended).
C23_TerminalIsAbsorbing ==
    [][TerminalConditionOccurred =>
          /\ nObserved' = nObserved
          /\ nDecisions' = nDecisions
          /\ nDispatched' = nDispatched
          /\ lastCall' = lastCall
          /\ steps' = steps
          /\ TerminalConditionOccurred']_vars

\* a run ended by the 14-step ceiling has returned
C23_Witness ==
    /\ pc = "returned"
    /\ reason = "Discoverability block: no progress for 14 steps"
    /\ Len(steps) = CeilingSteps
    /\ nDispatched = CeilingSteps

\* the reasons runAgentLoop assigns, one per way the loop ends
ConditionReasons ==
    {"Time budget exhausted", "Decision error", "Blocked destructive action",
     "Discoverability block: no progress for 14 steps", "Success hints satisfied",
     "Step budget exhausted",
     "Agent declared done but success hints not fully satisfied"}
    \cup {a.reason : a \in {r \in Responses \cup ResponsesLong : r.type = "done"}}

C26_ScreenshotBestEffort ==
    [][(pc = "record" \/ (pc = "act" /\ action.type = "done")) =>
          /\ pc' # "threw"
          /\ Len(steps') = Len(steps) + 1]_vars

(***************************************************************************)
(* generatePersonaQuestions (src/unnamed/part_003).  The completion         *)
(* service's text is blank, holds no JSON object, or holds an object whose  *)
(* questions are a list of strings.                                         *)
(***************************************************************************)
MinQuestionLength == 5

\* String.prototype.trim
trim(s) ==
    LET inked == { i \in 1..Len(s) : ~IsSpaceChar(s[i]) }
    IN  IF inked = {} THEN << >>
        ELSE SubSeq(s, CHOOSE i \in inked : \A j \in inked : i <= j,
                       CHOOSE i \in inked : \A j \in inked : j <= i)

\* PersonaQuestionGenResponseSchema: z.array(z.string().min(5)).min(1)
ValidQuestions(questions) ==
    /\ Len(questions) >= 1
    /\ \A k \in 1..Len(questions) : Len(questions[k]) >= MinQuestionLength

\* .filter(q => { key = q.toLowerCase(); if (seen.has(key)) return false; ... })
RECURSIVE DedupeLoop(_, _, _)
DedupeLoop(questions, k, seen) ==
    IF k > Len(questions) THEN << >>
    ELSE LET key == toLowerCase(questions[k])
         IN  IF key \in seen
             THEN DedupeLoop(questions, k + 1, seen)
             ELSE <<questions[k]>> \o DedupeLoop(questions, k + 1, seen \cup {key})

\* variant: the seen-set holds the questions as written, not lower-cased
RECURSIVE DedupeLoop_CaseSensitive(_, _, _)
DedupeLoop_CaseSensitive(questions, k, seen) ==
    IF k > Len(questions) THEN << >>
    ELSE IF questions[k] \in seen
         THEN DedupeLoop_CaseSensitive(questions, k + 1, seen)
         ELSE <<questions[k]>>
              \o DedupeLoop_CaseSensitive(questions, k + 1, seen \cup {questions[k]})

Dedupe_CaseSensitive(questions) == DedupeLoop_CaseSensitive(questions, 1, {})

Dedupe(questions) == DedupeLoop(questions, 1, {})

\* .map(q => q.trim()).filter(q => q.length > 0).filter(<first of its key>)
TrimAndDedupe(questions) ==
    Dedupe(SelectSeq([k \in 1..Len(questions) |-> trim(questions[k])],
                     LAMBDA q : Len(q) > 0))

QuestionsFailure(message) == [ok |-> FALSE, questions |-> << >>, error |-> message]

\* parseQuestionsFromClaude
parseQuestionsFromClaude(text) ==
    IF text.kind = "blank" THEN QuestionsFailure("Empty response from Claude")
    ELSE IF text.kind = "prose" THEN QuestionsFailure("No JSON found in response")
    ELSE IF ~ValidQuestions(text.questions)
    THEN QuestionsFailure("Question response failed validation")
    ELSE [ok |-> TRUE, questions |-> text.questions, error |-> ""]

\* generatePersonaQuestions: parse, trim and de-duplicate, slice(0, req.count),
\* validate again
generatePersonaQuestions(req, text) ==
    LET parsed == parseQuestionsFromClaude(text)
    IN  IF ~parsed.ok THEN parsed
        ELSE LET unique == TrimAndDedupe(parsed.questions)
                 questions == SubSeq(unique, 1, Min(req.count, Len(unique)))
             IN  IF ~ValidQuestions(questions)
                 THEN QuestionsFailure("Failed to validate generated questions")
                 ELSE [ok |-> TRUE, questions |-> questions, error |-> ""]

MaxQuestions == 3
MaxCount == 3

Q_padded == <<" ","P","l","a","n","s"," ">>
Q_lower == <<"p","l","a","n","s">>
Q_upper == <<"P","L","A","N","S","\n">>
Q_billing == <<"B","i","l","l","i","n","g">>
Q_spaces == <<" "," ","\t"," "," ">>
Q_short == <<" "," ","a","b"," "," ">>
Q_tiny == <<"a","b","c">>

QuestionTexts == {Q_padded, Q_lower, Q_upper, Q_billing, Q_spaces, Q_short, Q_tiny}

QuestionInputs ==
    [req : [count : 1..MaxCount],
     text : {[kind |-> "blank", questions |-> << >>],
             [kind |-> "prose", questions |-> << >>]}
            \cup [kind : {"json"}, questions : SeqsUpTo(QuestionTexts, MaxQuestions)]]

InitQuestions ==
    /\ Idle
    /\ input \in QuestionInputs
    /\ output = NoValue

ApplyGeneratePersonaQuestions ==
    /\ pc = "idle"
    /\ output = NoValue
    /\ output' = [kind |-> "generatePersonaQuestions",
                  value |-> generatePersonaQuestions(input.req, input.text)]
    /\ UNCHANGED <<loopVars, input>>

NextQuestions == ApplyGeneratePersonaQuestions

SpecQuestions == InitQuestions /\ [][NextQuestions]_vars

\* generatePersonaQuestions returned a list (it did not throw)
QuestionsReturned == output.kind = "generatePersonaQuestions" /\ output.value.ok

\* the positions of the service's list that survive: not blank, and no earlier
\* question equal to it once both are trimmed and compared without case
FirstOccurrences(raw) ==
    { i \in 1..Len(raw) :
        /\ trim(raw[i]) # << >>
        /\ \A j \in 1..(i - 1) :
              toLowerCase(trim(raw[j])) # toLowerCase(trim(raw[i])) }

\* ---------------------------------------------------------------------------
\* C27  When generatePersonaQuestions returns, its k-th question is the
\* trimmed text of the k-th first occurrence in the service's list (blank
\* questions and case-insensitive repeats skipped, order kept), there are as
\* many as there are first occurrences but at most req.count, and trimming and
\* de-duplicating the returned list again gives the same list.
C27_TrimmedUniqueQuestions ==
    QuestionsReturned =>
        LET raw == input.text.questions
            out == output.value.questions
            first == FirstOccurrences(raw)
        IN  /\ Len(out) <= input.req.count
            /\ Len(out) = IF Cardinality(first) > input.req.count
                          THEN input.req.count ELSE Cardinality(first)
            /\ \A k \in 1..Len(out) :
                  \E i \in first :
                     /\ Cardinality({ j \in first : j < i }) = k - 1
                     /\ out[k] = trim(raw[i])
            /\ TrimAndDedupe(out) = out

\* " Plans ", "plans", "Billing" with count 3 gives "Plans", "Billing"
C27_Witness ==
    /\ QuestionsReturned
    /\ input.text.questions = <<Q_padded, Q_lower, Q_billing>>
    /\ input.req.count = 3
    /\ output.value.questions = <<trim(Q_padded), Q_billing>>
    /\ Len(trim(Q_padded)) = 5

(***************************************************************************)
(* The run queue of runOrchestrator.ts.  JavaScript runs each of these to   *)
(* its end before anything else: startRun behind its await of fs.mkdir, and *)
(* the settling of executeRun with the catch and finally callbacks chained  *)
(* on it.                                                                   *)
(***************************************************************************)
\* variant: the loop admits a run while runningCount <= MAX_CONCURRENT_RUNS
RECURSIVE processQueue_OffByOne(_)
processQueue_OffByOne(o) ==
    IF o.runningCount <= o.limit /\ Len(o.pendingQueue) > 0
    THEN LET next == Head(o.pendingQueue)
         IN  processQueue_OffByOne(
                 [o EXCEPT !.pendingQueue = Tail(@),
                           !.runningCount = @ + 1,
                           !.status[next] = "running",
                           !.executing = @ \cup {next},
                           !.executions[next] = @ + 1,
                           !.started = Append(@, next)])
    ELSE o

\* variant: the loop takes the run that was enqueued last (pop, not shift)
RECURSIVE processQueue_TakesLast(_)
processQueue_TakesLast(o) ==
    IF o.runningCount < o.limit /\ Len(o.pendingQueue) > 0
    THEN LET next == o.pendingQueue[Len(o.pendingQueue)]
         IN  processQueue_TakesLast(
                 [o EXCEPT !.pendingQueue = SubSeq(@, 1, Len(@) - 1),
                           !.runningCount = @ + 1,
                           !.status[next] = "running",
                           !.executing = @ \cup {next},
                           !.executions[next] = @ + 1,
                           !.started = Append(@, next)])
    ELSE o

\* while (runningCount < MAX_CONCURRENT_RUNS && pendingQueue.length > 0) {
\*   next = pendingQueue.shift(); runningCount++; executeRun(next)... }
\* executeRun sets status 'running' before its first await.
RECURSIVE processQueue(_)
processQueue(o) ==
    IF o.runningCount < o.limit /\ Len(o.pendingQueue) > 0
    THEN LET next == Head(o.pendingQueue)
         IN  processQueue(
                 [o EXCEPT !.pendingQueue = Tail(@),
                           !.runningCount = @ + 1,
                           !.status[next] = "running",
                           !.executing = @ \cup {next},
                           !.executions[next] = @ + 1,
                           !.started = Append(@, next)])
    ELSE o

\* pendingQueue.push(runState); void processQueue()
enqueueRun(o, r) == processQueue([o EXCEPT !.pendingQueue = Append(@, r)])

\* variant: the finally callback starts the next run without giving the
\* slot back
releaseSlot_KeepsCount(o, r) ==
    processQueue([o EXCEPT !.executing = @ \ {r},
                           !.released[r] = @ + 1])

\* .finally(() => { runningCount--; void processQueue(); }) on the promise
\* of executeRun(r)
releaseSlot(o, r) ==
    processQueue([o EXCEPT !.executing = @ \ {r},
                           !.released[r] = @ + 1,
                           !.runningCount = @ - 1])

\* startRun: a new RunState with status 'pending' is stored and enqueued
\* (a failing fs.mkdir rejects before anything is stored)
StartRun ==
    /\ pc = "idle"
    /\ \E r \in RunIds :
          /\ orchestrator.status[r] = "new"
          /\ \A q \in RunIds : q < r => orchestrator.status[q] # "new"
          /\ orchestrator' = enqueueRun([orchestrator EXCEPT !.status[r] = "pending"], r)
    /\ UNCHANGED <<agentVars, input, output, tmux>>

\* executeRun resolves: report.json was written, status = report.status,
\* report = the evaluated report; finally: runningCount--, processQueue()
CompleteRun ==
    /\ pc = "idle"
    /\ \E r \in orchestrator.executing :
          \E s \in {"success", "fail", "partial"} :
             orchestrator' = releaseSlot([orchestrator EXCEPT
                                             !.status[r] = s,
                                             !.report[r] = "evaluated",
                                             !.file[r] = TRUE], r)
    /\ UNCHANGED <<agentVars, input, output, tmux>>

\* executeRun rejects: catch sets status 'fail' and the error report;
\* finally: runningCount--, processQueue()
FailRun ==
    /\ pc = "idle"
    /\ \E r \in orchestrator.executing :
          orchestrator' = releaseSlot([orchestrator EXCEPT
                                          !.threw = @ \cup {r},
                                          !.status[r] = "fail",
                                          !.report[r] = "error"], r)
    /\ UNCHANGED <<agentVars, input, output, tmux>>

\* getRunReport: the stored report if there is one, the stub with status
\* 'running' for a run that is running, else report.json from the disk, and
\* null when reading it fails
getRunReport(o, r) ==
    IF o.report[r] # "none" THEN o.report[r]
    ELSE IF o.status[r] = "running" THEN "running"
    ELSE IF o.file[r] THEN "evaluated"
    ELSE "null"

\* GET /runs/:runId for a runId that startRun has returned
GetRunReport ==
    /\ pc = "idle"
    /\ \E r \in RunIds :
          /\ orchestrator.status[r] # "new"
          /\ output' = [kind |-> "report", runId |-> r,
                        value |-> getRunReport(orchestrator, r)]
    /\ UNCHANGED <<loopVars, input>>

InitOrchestrator ==
    /\ cfg = Config(G_browse, 1, 1, NoHints)
    /\ env = World
    /\ pc = "idle"
    /\ stepIndex = 0
    /\ elapsed = 0
    /\ page = "A"
    /\ snapshot = "A"
    /\ action = NoAction
    /\ result = NoResult
    /\ steps = << >>
    /\ ladderState = [phase |-> 0, stepsWithoutProgress |-> 0,
                      searchTermsUsed |-> << >>, helpOpened |-> FALSE]
    /\ visitedPages = [k \in PageKeys |-> 0]
    /\ finalStatus = "fail"
    /\ reason = "Unknown"
    /\ completionEvidence = << >>
    /\ lastCall = NoCall
    /\ nObserved = 0
    /\ nDecisions = 0
    /\ nDispatched = 0
    /\ input = NoValue
    /\ output = NoValue
    /\ twin = NoTwin
    /\ tmux = NoTmux
    /\ listener = << >>
    /\ evidence = NoEvidence
    /\ \E setting \in EnvSettings : orchestrator = ModuleState(setting)

NextOrchestrator ==
    \/ StartRun
    \/ CompleteRun
    \/ FailRun
    \/ GetRunReport

SpecOrchestrator == InitOrchestrator /\ [][NextOrchestrator]_vars

RECURSIVE StalledAfter(_)
StalledAfter(k) ==
    IF k = 0 THEN 0
    ELSE LET before == StalledAfter(k - 1)
             progress == steps[k].result.progress
         IN  IF progress = "major" THEN 0
             ELSE IF progress = "none" THEN before + 1
             ELSE IF before > 0 THEN before - 1 ELSE 0

EverStalledFor(n) == \E k \in 0..Len(steps) : StalledAfter(k) >= n

\* an iteration passes updateHelpLadder: buildSnapshot returned
LadderUpdated == pc = "observe" /\ pc' = "decide"

HelpWasOpened ==
    \E k \in 1..Len(steps) : steps[k].action.type = "openHelp" /\ steps[k].result.ok

\* ---------------------------------------------------------------------------
\* C29  Once an openHelp action has been executed, the opening is recorded in
\* ladderState.helpOpened and no later iteration sets the phase to 2.
C29_NoPhaseTwoAfterHelp ==
    [][HelpWasOpened =>
          /\ ladderState.helpOpened
          /\ LadderUpdated =>
                (ladderState'.phase = 2 => ladderState.phase = 2)]_vars

\* ---------------------------------------------------------------------------
\* C30  A run and its twin, which differ only in the hasSearchBox and
\* hasHelpLink flags of their observations (and so in their ladder phase),
\* go through the same stepsWithoutProgress values and run into the 14-step
\* ceiling together; nothing else the loop decides on (the action decided,
\* the destructive gate, the hints, the budgets) reads the flags or the
\* phase, so they dispatch the same actions and end with the same outcome.
C30_PhaseIsNoGate ==
    /\ twin.ladderState.stepsWithoutProgress = ladderState.stepsWithoutProgress
    /\ twin.ladderState.helpOpened = ladderState.helpOpened
    /\ twin.ceiling <=> (ladderState.stepsWithoutProgress >= CeilingSteps)
    /\ twin.ceiling =>
          (pc \in {"after", "returned"} /\ Len(steps) = nDispatched)

\* the run reached phase 2 and its twin, which never saw a help link or a
\* search box, stayed in phase 0; both ended at the ceiling
C30_Witness ==
    /\ pc = "returned"
    /\ twin.flags = "none"
    /\ ladderState.phase = 2
    /\ twin.ladderState.phase = 0
    /\ twin.ceiling
    /\ nDispatched = CeilingSteps

\* ---------------------------------------------------------------------------
\* C31  A click, fill or select whose target is given as a non-empty string
\* under exactly one of the keys target, element, ref, selector, text, field,
\* with its other required field (fill: value, select: option) under the
\* canonical name, normalizes to an action of that type with that target.
C31_TargetAliases ==
    Applied =>
        LET fields == input.fields
            given == (DOMAIN fields) \cap TargetKeys
            others == (DOMAIN fields) \ TargetKeys
            required == CASE input.type = "fill" -> {"value"}
                          [] input.type = "select" -> {"option"}
                          [] OTHER -> {}
        IN  (/\ input.shape = "flat"
             /\ input.type \in {"click", "fill", "select"}
             /\ Cardinality(given) = 1
             /\ others = required
             /\ \A k \in DOMAIN fields : fields[k].t = "string" /\ fields[k].v # "")
            => /\ output.value.ok
               /\ output.value.action.type = input.type
               /\ \E k \in given : output.value.action.target = fields[k].v

(***************************************************************************)
(* The session lock of claudeTmux.ts (src/unnamed/part_002).  A call is     *)
(* suspended at `await sessionLock` and resumed in a later microtask once   *)
(* the promise it awaited is resolved; each action is the code between two  *)
(* await points.                                                            *)
(***************************************************************************)
\* callClaudeTmux up to `await sessionLock` inside acquireLock
CallClaudeTmux ==
    /\ pc = "idle"
    /\ \E c \in CallIds :
          /\ tmux.call[c] = "idle"
          /\ tmux' = [tmux EXCEPT !.call[c] = "waiting",
                                  !.awaiting[c] = tmux.sessionLock]
    /\ UNCHANGED <<agentVars, input, output, orchestrator>>

\* the awaited promise is resolved: sessionLock = new Promise(resolve =>
\* { lockResolve = resolve }), and acquireLock returns
AcquireLock ==
    /\ pc = "idle"
    /\ \E c \in CallIds :
          /\ tmux.call[c] = "waiting"
          /\ tmux.awaiting[c] \in tmux.resolved
          /\ tmux' = [tmux EXCEPT !.call[c] = "holding",
                                  !.awaiting[c] = NoPromise,
                                  !.created = @ + 1,
                                  !.sessionLock = tmux.created + 1,
                                  !.lockResolve = tmux.created + 1]
    /\ UNCHANGED <<agentVars, input, output, orchestrator>>

\* finally { releaseLock() }: if (lockResolve) { lockResolve(); lockResolve = null }
ReleaseLock ==
    /\ pc = "idle"
    /\ \E c \in CallIds :
          /\ tmux.call[c] = "holding"
          /\ tmux' = [tmux EXCEPT
                         !.call[c] = "released",
                         !.resolved = IF tmux.lockResolve = NoPromise THEN @
                                      ELSE @ \cup {tmux.lockResolve},
                         !.lockResolve = NoPromise]
    /\ UNCHANGED <<agentVars, input, output, orchestrator>>

InitTmux ==
    /\ Idle
    /\ input = NoValue
    /\ output = NoValue

NextTmux ==
    \/ CallClaudeTmux
    \/ AcquireLock
    \/ ReleaseLock

SpecTmux == InitTmux /\ [][NextTmux]_vars

\* the calls between a completed acquireLock and their releaseLock
Holders == { c \in CallIds : tmux.call[c] = "holding" }

\* ---------------------------------------------------------------------------
\* C32  At most one call is between its completed acquireLock and its
\* releaseLock, and a call that waits while nobody holds the lock is waiting
\* on a resolved promise (it can go on).
C32_LockIsMutex ==
    /\ Cardinality(Holders) <= 1
    /\ \A c \in CallIds :
          (tmux.call[c] = "waiting" /\ Holders = {}) =>
              tmux.awaiting[c] \in tmux.resolved

GapFreeTrace ==
    /\ \A k \in 1..Len(steps) : steps[k].i = k - 1
    /\ Len(steps) <= cfg.maxSteps
    /\ pc = "head" => Len(steps) = stepIndex
    /\ \A k \in 1..(Len(steps) - 1) : steps[k].action.type # "done"

C35_CeilingBeforeHints ==
    [][/\ (pc = "record" /\ listener' # listener
             /\ ladderState'.stepsWithoutProgress >= 14) =>
             /\ pc' = "after"
             /\ reason' = "Discoverability block: no progress for 14 steps"
             /\ nObserved' = nObserved
       /\ reason' = "Success hints satisfied" =>
             (Len(steps') >= 1 /\ nDecisions' >= 1 /\ nDispatched' >= 1)
       /\ (pc' = "returned" /\ ladderState'.stepsWithoutProgress >= 14) =>
             /\ finalStatus' = "fail"
             /\ reason' = "Discoverability block: no progress for 14 steps"]_vars

\* ---------------------------------------------------------------------------
\* C36  For every runId that startRun has returned, getRunReport returns a
\* report and never null, whether the run is pending, running, finished or
\* failed (no report.json of the run exists before the run writes it).
C36_ReportNeverNull ==
    output.kind = "report" => output.value # "null"

(***************************************************************************)
(* Console events during a run.  The page's 'console' listener of           *)
(* startCapture runs whenever the loop waits in an await: for               *)
(* buildSnapshot, decideNextAction, executeAction, takeScreenshot,          *)
(* appendStepLog.  MaxEvents bounds the events of one run.                  *)
(***************************************************************************)
MaxEvents == 2

ConfigsEvents ==
    { Config(G_browse, n, MaxMinutes, NoHints) : n \in 1..MaxSteps }

\* page.on('console', ...) for an error or a warning: the event is pushed
\* to the step buffer (and to the buffer of the whole run)
CaptureEvent ==
    /\ pc \in {"observe", "decide", "act", "record", "hints"}
    /\ evidence.captured < MaxEvents
    /\ evidence' = [stepConsoleErrors |->
                        Append(evidence.stepConsoleErrors, evidence.captured + 1),
                    captured |-> evidence.captured + 1]
    /\ UNCHANGED <<cfg, env, pc, stepIndex, elapsed, page, snapshot, action,
                   result, steps, ladderState, visitedPages, finalStatus,
                   reason, completionEvidence, lastCall, nObserved,
                   nDecisions, nDispatched, input, output, orchestrator,
                   tmux, listener, twin>>

InitEvents == InitLoop(ConfigsEvents, World)

NextEvents ==
    \/ Next
    \/ CaptureEvent

SpecEvents == InitEvents /\ [][NextEvents]_vars

\* how often the event e is listed in the console errors of the steps
RECURSIVE TimesCounted(_, _)
TimesCounted(e, records) ==
    IF records = << >> THEN 0
    ELSE Cardinality({k \in 1..Len(Head(records).errors.console) :
                          Head(records).errors.console[k] = e})
         + TimesCounted(e, Tail(records))

\* ---------------------------------------------------------------------------
\* C37  Every console event captured while the loop runs is listed in the
\* errors of at most one recorded step, so that the sum of the steps'
\* console errors counts no event twice, however the events fall between
\* the phases of the loop and also when the last step is a done action.
C37_EventCountedOnce ==
    \A e \in 1..MaxEvents : TimesCounted(e, steps) <= 1

\* ---------------------------------------------------------------------------
\* C38  With successHints configured but without any mustSeeText or
\* mustEndOnUrlIncludes entry, a returned run whose last step is a done
\* action has status success, and a returned run whose first step executed
\* an action has that one step only, status success and reason 'Success
\* hints satisfied'.
C38_EmptyHintsAreSatisfied ==
    (pc = "returned" /\ cfg.successHints = HintsEmpty /\ Len(steps) >= 1) =>
        /\ steps[Len(steps)].action.type = "done" =>
              /\ finalStatus = "success"
              /\ reason = steps[Len(steps)].action.reason
        /\ steps[1].action.type # "done" =>
              /\ Len(steps) = 1
              /\ finalStatus = "success"
              /\ reason = "Success hints satisfied"
              /\ completionEvidence = << 0 >>

\* a run allowed two steps that ended behind its first executed step because
\* the empty hints held
C38_Witness ==
    /\ pc = "returned"
    /\ cfg.successHints = HintsEmpty
    /\ cfg.maxSteps = 2
    /\ Len(steps) = 1
    /\ steps[1].action.type # "done"
    /\ reason = "Success hints satisfied"

(***************************************************************************)
(* The run queue under the assumption that every run inside executeRun      *)
(* settles: its promise resolves or rejects, and the catch and finally      *)
(* callbacks chained on it run.                                             *)
(***************************************************************************)
Settles(r) ==
    /\ r \in orchestrator.executing
    /\ CompleteRun \/ FailRun
    /\ r \notin orchestrator'.executing

\* getRunReport changes nothing of the queue and is left out here
NextQueue ==
    \/ StartRun
    \/ CompleteRun
    \/ FailRun

SpecOrchestratorFair ==
    /\ InitOrchestrator
    /\ [][NextQueue]_vars
    /\ \A r \in RunIds : WF_vars(Settles(r))

\* executeRun was called for r, and for no run enqueued behind r before that
StartedInTurn(r) ==
    \E k \in 1..Len(orchestrator.started) :
        /\ orchestrator.started[k] = r
        /\ \A j \in 1..(k - 1) : orchestrator.started[j] < r

Unsettled ==
    {r \in RunIds : orchestrator.executions[r] > orchestrator.released[r]}

====
